---- MODULE Spec2Model ----
(***************************************************************************)
(* State-machine model of the per-agent learning store (agent_memory.py)   *)
(* and of the pattern miner (pattern_miner.py).                            *)
(*                                                                         *)
(* Representation                                                          *)
(*  - A text value is a sequence of one-character strings, so that slicing *)
(*    (s[:n]), splitting, lower-casing and LIKE matching are computed.     *)
(*  - A REAL column (confidence, outcome_score) is an integer number of    *)
(*    1/Q units; Q is a multiple of 100 and of every win-rate denominator  *)
(*    the miner can produce, so every value of the model is exact.         *)
(*  - A table is the sequence of its rows in rowid (insertion) order.      *)
(*  - uuid4-derived ids are fresh integers (collisions are not modelled).  *)
(*  - The wall clock is a number of half-hours (UTC); datetime.now(ET)     *)
(*    .isoformat() is computed by IsoNow, with both DST transitions.       *)
(***************************************************************************)
EXTENDS Integers, Sequences, FiniteSets, TLC

VARIABLES decisions, patterns, knowledge, nextKid, clock, last, miner, conns,
          bus, kill

vars == <<decisions, patterns, knowledge, nextKid, clock, last, miner, conns,
          bus, kill>>

(***************************************************************************)
(* Bounds of the model.                                                    *)
(***************************************************************************)
MaxDecisions == 2
MaxPatterns == 2
MaxEvidence == 3
MaxKnowledge == 2
MaxTicks == 4
MinerDecisions == 3
MinerPatterns == 2
MinerEvidence == 3
RemineEvidence == 10
CoDecisions == 3
ConnPatterns == 2
ConnEvidence == 2
ConnKnowledge == 2
ActiveEvidenceMax == 4
StoreDecisions == 3
SearchDecisionsMax == 2
ContextDecisions == 2
BatchDecisions == 3

\* The position of a mine_agent run: none is running.
Idle == [pc |-> "idle"]

\* The event bus before anything is published: no events file, no cursors
\* file.  `fresh` and `returned` are kept for the properties only: per
\* agent, the events published since its last get_unread call and the
\* events its calls have returned; `called` tells whether it has called;
\* `writes` counts the publish steps.
BusAgents == {"hawk"}
NoEvents ==
    [events |-> <<>>, cursors |-> [a \in BusAgents |-> 0], nextId |-> 1,
     writes |-> 0,
     fresh |-> [a \in BusAgents |-> {}], returned |-> [a \in BusAgents |-> {}],
     called |-> [a \in BusAgents |-> FALSE]]

\* No kill switch file.
NoSwitch == [file |-> FALSE]

\* The connections of the agent's processes, and the call each has in
\* flight: none.
Conns == {1, 2}
NoCalls == [c \in Conns |-> Idle]

(***************************************************************************)
(* Numbers.                                                                *)
(***************************************************************************)
Min(a, b) == IF a <= b THEN a ELSE b
Max(a, b) == IF a >= b THEN a ELSE b

RECURSIVE Gcd(_, _)
Gcd(a, b) == IF b = 0 THEN a ELSE Gcd(b, a % b)

RECURSIVE LcmUpTo(_)
LcmUpTo(n) == IF n <= 1 THEN 1
              ELSE LET l == LcmUpTo(n - 1) IN (l * n) \div Gcd(l, n)

\* Resolution of a REAL value: 1/Q.
Q == 100 * LcmUpTo(2 * MinerDecisions)
\* n hundredths, in 1/Q units.
Pct(n) == n * (Q \div 100)

(***************************************************************************)
(* Text.                                                                   *)
(***************************************************************************)
\* s[:n]
Slice(s, n) == SubSeq(s, 1, Min(Len(s), n))
\* c * n
Rep(c, n) == [i \in 1..n |-> c]

(***************************************************************************)
(* Time: datetime.now(ET), isoformat() and timedelta arithmetic.           *)
(* The clock counts half-hours since 2026-01-01T00:00Z.  An ISO text is    *)
(* the pair <<local wall time, digit of the UTC offset>>: the text reads   *)
(* "<date>T<time>-0<digit>:00", so comparing two texts compares the wall   *)
(* times first and the offset digits next.  The empty text is <<>>.        *)
(***************************************************************************)
\* America/New_York 2026: EDT from 2026-03-08T07:00Z to 2026-11-01T06:00Z.
DstStart == 3182
DstEnd == 14604
EST == 5
EDT == 4

\* UTC offset (hours west) in force at UTC instant u.
UtcOffset(u) == IF u >= DstStart /\ u < DstEnd THEN EDT ELSE EST
\* UTC offset zoneinfo gives a local wall time w with fold=0: a wall time
\* inside the spring gap keeps the offset before the transition, a wall
\* time inside the repeated autumn hour is its first occurrence.
LocalOffset(w) ==
    IF w >= DstStart - 2 * EDT /\ w < DstEnd - 2 * EDT THEN EDT ELSE EST

\* datetime.now(ET).isoformat() at UTC instant u.
IsoNow(u) == <<u - 2 * UtcOffset(u), UtcOffset(u)>>
\* (dt + timedelta(hours=h)).isoformat(): wall-clock arithmetic.
IsoPlusHours(iso, h) == <<iso[1] + 2 * h, LocalOffset(iso[1] + 2 * h)>>
\* a < b on two non-empty ISO texts (string comparison).
IsoLess(a, b) == a[1] < b[1] \/ (a[1] = b[1] /\ a[2] < b[2])

(***************************************************************************)
(* Decisions (agent_memory.py, record_decision / record_outcome).          *)
(***************************************************************************)
TEXT_MAX == 2000

\* max(0.0, min(1.0, confidence))
ClampConfidence(c) == Max(0, Min(Q, c))
\* A faulty clamp: the score clamped like a confidence, into [0,1].
ClampScoreUnsigned(s) == Max(0, Min(Q, s))
\* max(-1.0, min(1.0, score))
ClampScore(s) == Max(-Q, Min(Q, s))

\* The row INSERTed by record_decision; the columns it does not name take
\* the table's defaults (outcome '', outcome_score 0.0, resolved 0).
NewDecision(did, now, context, decision, reasoning, confidence, tags) ==
    [id |-> did, timestamp |-> now,
     context |-> Slice(context, TEXT_MAX),
     decision |-> Slice(decision, TEXT_MAX),
     reasoning |-> Slice(reasoning, TEXT_MAX),
     confidence |-> ClampConfidence(confidence),
     outcome |-> <<>>, outcome_score |-> 0, resolved |-> FALSE,
     tags |-> tags]

\* A faulty UPDATE: the resolved flag is not set.
ResolveLeavesOpen(row, outcome, score) ==
    [row EXCEPT !.outcome = Slice(outcome, TEXT_MAX),
                !.outcome_score = ClampScore(score)]

\* UPDATE decisions SET outcome = ?, outcome_score = ?, resolved = 1
Resolve(row, outcome, score) ==
    [row EXCEPT !.outcome = Slice(outcome, TEXT_MAX),
                !.outcome_score = ClampScore(score),
                !.resolved = TRUE]

\* A faulty UPDATE: the WHERE clause is missing.
UpdateOutcomeEveryRow(rows, decision_id, outcome, score) ==
    [i \in 1..Len(rows) |-> Resolve(rows[i], outcome, score)]

\* A faulty UPDATE: ... WHERE id = ? AND resolved = 0.
UpdateOutcomeOnce(rows, decision_id, outcome, score) ==
    [i \in 1..Len(rows) |->
        IF rows[i].id = decision_id /\ ~rows[i].resolved
        THEN Resolve(rows[i], outcome, score)
        ELSE rows[i]]

\* ... WHERE id = ?
UpdateOutcome(rows, decision_id, outcome, score) ==
    [i \in 1..Len(rows) |->
        IF rows[i].id = decision_id THEN Resolve(rows[i], outcome, score)
        ELSE rows[i]]

\* cur.rowcount
RowCount(rows, rid) == Cardinality({i \in 1..Len(rows) : rows[i].id = rid})

record_decision(context, decision, reasoning, confidence, tags) ==
    /\ LET did == Len(decisions) + 1
           now == IsoNow(clock)
       IN /\ decisions' = Append(decisions,
                 NewDecision(did, now, context, decision, reasoning,
                             confidence, tags))
          /\ last' = [op |-> "record_decision", confidence |-> confidence,
                      ret |-> did]
    /\ UNCHANGED <<patterns, knowledge, nextKid, clock, miner, conns, bus, kill>>

record_outcome(decision_id, outcome, score) ==
    /\ decisions' = UpdateOutcome(decisions, decision_id, outcome, score)
    /\ last' = [op |-> "record_outcome", id |-> decision_id,
                outcome |-> outcome, score |-> score,
                again |-> \E i \in 1..Len(decisions) :
                             decisions[i].id = decision_id /\ decisions[i].resolved,
                ret |-> RowCount(decisions, decision_id) > 0]
    /\ UNCHANGED <<patterns, knowledge, nextKid, clock, miner, conns, bus, kill>>


(***************************************************************************)
(* Patterns (agent_memory.py, add_pattern / deactivate_pattern).           *)
(***************************************************************************)
PATTERN_TYPE_MAX == 100
DESCRIPTION_MAX == 1000
\* The reinforcement step 0.05 and its ceiling 0.99, in hundredths.
REINFORCE_STEP == 5
REINFORCE_CAP == 99

\* A faulty lookup: AND active = 1 is missing.
ExistingPatternAnyState(rows, pattern_type, description) ==
    {i \in 1..Len(rows) : /\ rows[i].pattern_type = pattern_type
                          /\ rows[i].description = description}

\* SELECT ... WHERE pattern_type = ? AND description = ? AND active = 1:
\* the positions of the rows the lookup matches.
ExistingPattern(rows, pattern_type, description) ==
    {i \in 1..Len(rows) : /\ rows[i].pattern_type = pattern_type
                          /\ rows[i].description = description
                          /\ rows[i].active}

\* A faulty reinforcement: the ceiling of 0.99 is missing.
ReinforceUncapped(row, evidence_count, now) ==
    [row EXCEPT !.evidence_count = row.evidence_count + evidence_count,
                !.confidence = row.confidence + Pct(REINFORCE_STEP),
                !.updated_at = now]

\* new_count, new_conf and the UPDATE of the reinforced row.
Reinforce(row, evidence_count, now) ==
    [row EXCEPT !.evidence_count = row.evidence_count + evidence_count,
                !.confidence = Min(Pct(REINFORCE_CAP),
                                   row.confidence + Pct(REINFORCE_STEP)),
                !.updated_at = now]

\* The row INSERTed by add_pattern (active takes the default 1).
NewPattern(pid, now, pattern_type, description, evidence_count, confidence, tags) ==
    [id |-> pid,
     pattern_type |-> Slice(pattern_type, PATTERN_TYPE_MAX),
     description |-> Slice(description, DESCRIPTION_MAX),
     evidence_count |-> evidence_count,
     confidence |-> ClampConfidence(confidence),
     active |-> TRUE, created_at |-> now, updated_at |-> now,
     tags |-> tags]

\* The patterns table after add_pattern, and the id it returns.  fetchone()
\* on a lookup without ORDER BY returns any one of the matching rows.
AddPatternResults(rows, now, pattern_type, description, evidence_count, confidence, tags) ==
    LET existing == ExistingPattern(rows, pattern_type, description)
        pid == Len(rows) + 1
    IN IF existing # {}
       THEN {[rows |-> [rows EXCEPT ![i] =
                            Reinforce(rows[i], evidence_count, now)],
              ret |-> rows[i].id] : i \in existing}
       ELSE {[rows |-> Append(rows,
                  NewPattern(pid, now, pattern_type, description,
                             evidence_count, confidence, tags)),
              ret |-> pid]}

add_pattern(pattern_type, description, evidence_count, confidence, tags) ==
    /\ \E r \in AddPatternResults(patterns, IsoNow(clock), pattern_type,
                                  description, evidence_count, confidence,
                                  tags) :
          /\ patterns' = r.rows
          /\ last' = [op |-> "add_pattern", pattern_type |-> pattern_type,
                      description |-> description,
                      evidence_count |-> evidence_count,
                      confidence |-> confidence, ret |-> r.ret]
    /\ UNCHANGED <<decisions, knowledge, nextKid, clock, miner, conns, bus, kill>>

\* A faulty UPDATE patterns SET active = 0, without its WHERE clause.
DeactivateEveryRow(rows, pattern_id) ==
    [i \in 1..Len(rows) |-> [rows[i] EXCEPT !.active = FALSE]]

\* A faulty DELETE FROM patterns WHERE id = ?
DeactivateDeletes(rows, pattern_id) ==
    LET Others(r) == r.id # pattern_id IN SelectSeq(rows, Others)

\* UPDATE patterns SET active = 0 WHERE id = ?
Deactivate(rows, pattern_id) ==
    [i \in 1..Len(rows) |->
        IF rows[i].id = pattern_id THEN [rows[i] EXCEPT !.active = FALSE]
        ELSE rows[i]]

deactivate_pattern(pattern_id) ==
    /\ patterns' = Deactivate(patterns, pattern_id)
    /\ last' = [op |-> "deactivate_pattern", id |-> pattern_id,
                ret |-> RowCount(patterns, pattern_id) > 0]
    /\ UNCHANGED <<decisions, knowledge, nextKid, clock, miner, conns, bus, kill>>

\* The results an ORDER BY may return: every sequence that lists the rows
\* of `rows` once each and never places row j before row i when <<i, j>> is
\* in `before` (rows that tie come in any order).
RECURSIVE Orderings(_, _)
Orderings(idx, before) ==
    IF idx = {} THEN {<<>>}
    ELSE UNION {{<<i>> \o rest : rest \in Orderings(idx \ {i}, before)} :
                  i \in {k \in idx : \A j \in idx : <<j, k>> \notin before}}

OrderedBy(rows, before) ==
    {[k \in 1..Len(rows) |-> rows[o[k]]] : o \in Orderings(1..Len(rows), before)}

\* A faulty ORDER BY confidence DESC: rows of equal confidence tie.
PatternPrecedesByConfidence(a, b) == a.confidence > b.confidence

\* ORDER BY confidence DESC, evidence_count DESC
PatternPrecedes(a, b) ==
    \/ a.confidence > b.confidence
    \/ a.confidence = b.confidence /\ a.evidence_count > b.evidence_count

\* The pairs of positions <<i, j>> where rows[i] sorts strictly before rows[j].
PatternOrder(rows) ==
    {p \in (1..Len(rows)) \X (1..Len(rows)) : PatternPrecedes(rows[p[1]], rows[p[2]])}

\* pattern_type: str | None = None.  A text is a sequence of characters, so
\* this value is none of the texts.
None == <<"None">>

\* if pattern_type: neither None nor the empty text is truthy.
Truthy(text) == text # None /\ text # <<>>

\* The rows get_active_patterns may return, as a set of sequences.
GetActivePatterns(rows, pattern_type, min_confidence) ==
    LET Keep(r) == /\ r.active
                   /\ (Truthy(pattern_type) => r.pattern_type = pattern_type)
                   /\ (min_confidence > 0 => r.confidence >= min_confidence)
        kept == SelectSeq(rows, Keep)
    IN OrderedBy(kept, PatternOrder(kept))

get_active_patterns(pattern_type, min_confidence) ==
    /\ \E res \in GetActivePatterns(patterns, pattern_type, min_confidence) :
          last' = [op |-> "get_active_patterns", pattern_type |-> pattern_type,
                   min_confidence |-> min_confidence, ret |-> res]
    /\ UNCHANGED <<decisions, patterns, knowledge, nextKid, clock, miner, conns, bus, kill>>


(***************************************************************************)
(* Knowledge (agent_memory.py, set_knowledge / get_knowledge).             *)
(***************************************************************************)
CATEGORY_MAX == 100
KEY_MAX == 200
VALUE_MAX == 5000
SOURCE_MAX == 200

\* expires: '' unless ttl_hours > 0.
Expires(now, ttl_hours) ==
    IF ttl_hours > 0 THEN IsoPlusHours(now, ttl_hours) ELSE <<>>

\* SELECT id FROM knowledge WHERE category = ? AND key = ?
ExistingKnowledge(rows, category, key) ==
    {i \in 1..Len(rows) : rows[i].category = category /\ rows[i].key = key}

\* UPDATE knowledge SET value, source, ttl_hours, created_at, expires_at
UpdateKnowledge(row, now, value, source, ttl_hours) ==
    [row EXCEPT !.value = Slice(value, VALUE_MAX),
                !.source = Slice(source, SOURCE_MAX),
                !.ttl_hours = ttl_hours,
                !.created_at = now,
                !.expires_at = Expires(now, ttl_hours)]

\* The row INSERTed by set_knowledge.
NewKnowledge(kid, now, category, key, value, source, ttl_hours) ==
    [id |-> kid,
     category |-> Slice(category, CATEGORY_MAX),
     key |-> Slice(key, KEY_MAX),
     value |-> Slice(value, VALUE_MAX),
     source |-> Slice(source, SOURCE_MAX),
     ttl_hours |-> ttl_hours, created_at |-> now,
     expires_at |-> Expires(now, ttl_hours)]

\* The knowledge table after set_knowledge, and the id it returns.  The
\* UPDATE is by id, so it rewrites the one row fetchone() returned.
SetKnowledgeResults(rows, kid, now, category, key, value, source, ttl_hours) ==
    LET existing == ExistingKnowledge(rows, category, key)
    IN IF existing # {}
       THEN {[rows |-> [rows EXCEPT ![i] =
                  UpdateKnowledge(rows[i], now, value, source, ttl_hours)],
              ret |-> rows[i].id, inserted |-> FALSE] : i \in existing}
       ELSE {[rows |-> Append(rows,
                  NewKnowledge(kid, now, category, key, value, source,
                               ttl_hours)),
              ret |-> kid, inserted |-> TRUE]}

set_knowledge(category, key, value, source, ttl_hours) ==
    /\ \E r \in SetKnowledgeResults(knowledge, nextKid, IsoNow(clock),
                                    category, key, value, source, ttl_hours) :
          /\ knowledge' = r.rows
          /\ nextKid' = IF r.inserted THEN nextKid + 1 ELSE nextKid
          /\ last' = [op |-> "set_knowledge", category |-> category,
                      key |-> key, value |-> value, source |-> source,
                      ttl_hours |-> ttl_hours, ret |-> r.ret]
    /\ UNCHANGED <<decisions, patterns, clock, miner, conns, bus, kill>>

\* DELETE FROM knowledge WHERE expires_at != '' AND expires_at < ?
PruneExpired(rows, now) ==
    LET Live(r) == ~(r.expires_at # <<>> /\ IsoLess(r.expires_at, now))
    IN SelectSeq(rows, Live)

\* ORDER BY created_at DESC
KnowledgePrecedes(a, b) == IsoLess(b.created_at, a.created_at)

KnowledgeOrder(rows) ==
    {p \in (1..Len(rows)) \X (1..Len(rows)) : KnowledgePrecedes(rows[p[1]], rows[p[2]])}

\* SELECT * FROM knowledge WHERE 1=1 [AND category = ?] [AND key = ?]:
\* a filter that is None or the empty text is not applied.
SelectKnowledge(rows, category, key) ==
    LET Keep(r) == /\ (category # <<>> => r.category = category)
                   /\ (key # <<>> => r.key = key)
        kept == SelectSeq(rows, Keep)
    IN OrderedBy(kept, KnowledgeOrder(kept))

get_knowledge(category, key) ==
    /\ knowledge' = PruneExpired(knowledge, IsoNow(clock))
    /\ \E res \in SelectKnowledge(knowledge', category, key) :
          last' = [op |-> "get_knowledge", category |-> category,
                   key |-> key, ret |-> res]
    /\ UNCHANGED <<decisions, patterns, nextKid, clock, miner, conns, bus, kill>>

\* Half an hour passes.
Tick ==
    /\ clock' = clock + 1
    /\ last' = [op |-> "tick"]
    /\ UNCHANGED <<decisions, patterns, knowledge, nextKid, miner, conns, bus, kill>>


(***************************************************************************)
(* Rows a store file may already hold when it is opened (CREATE TABLE IF   *)
(* NOT EXISTS keeps them): each is a row an earlier call inserted.         *)
(***************************************************************************)
T_trend == <<"t", "r", "e", "n", "d">>
T_X == <<"X">>
T_risk == <<"r", "i", "s", "k">>
T_btc_vol == <<"b", "t", "c", "_", "v", "o", "l">>
T_high == <<"h", "i", "g", "h">>
T_low == <<"l", "o", "w">>
T_Won == <<"W", "o", "n">>
T_atlas == <<"a", "t", "l", "a", "s">>

\* An ordinary instant, far from both DST transitions (2026-01-03T02:00Z).
PlainTime == 100

SeedPattern == NewPattern(1, IsoNow(PlainTime), T_trend, T_X, 1, Pct(50), <<>>)
SeedKnowledge == NewKnowledge(1, IsoNow(PlainTime), T_risk, T_btc_vol, T_high, T_atlas, 0)

(***************************************************************************)
(* SpecDecisions: recording decisions and outcomes on a store that holds   *)
(* a pattern and a fact.                                                   *)
(***************************************************************************)
DecConfidences == {Pct(0 - 50), Pct(50), Pct(150)}
\* <<outcome, score>>: a score below, inside and above [-1,1]; an outcome
\* longer than the column's bound.
DecOutcomes == {<<T_Won, Pct(0 - 150)>>, <<T_Won, Pct(85)>>, <<Rep("x", TEXT_MAX + 1), Pct(150)>>}
DecIds == 1..(MaxDecisions + 1)

DecInit ==
    /\ decisions = <<>>
    /\ patterns = <<SeedPattern>>
    /\ knowledge = <<SeedKnowledge>>
    /\ nextKid = 2
    /\ clock = PlainTime
    /\ last = [op |-> "open"]
    /\ miner = Idle
    /\ conns = NoCalls
    /\ bus = NoEvents
    /\ kill = NoSwitch

DecRecordDecision ==
    /\ Len(decisions) < MaxDecisions
    /\ \E confidence \in DecConfidences :
          record_decision(T_btc_vol, T_high, <<>>, confidence, <<>>)

DecRecordOutcome ==
    \E id \in DecIds, o \in DecOutcomes : record_outcome(id, o[1], o[2])

DecNext == DecRecordDecision \/ DecRecordOutcome

SpecDecisions == DecInit /\ [][DecNext]_vars

\* The decision rows with a given id.
DecisionsWithId(rows, id) == {i \in 1..Len(rows) : rows[i].id = id}

(***************************************************************************)
(* C1: record_decision stores the confidence clamped into [0,1] and        *)
(* record_outcome stores the outcome_score clamped into [-1,1], for every  *)
(* input below, inside or above the range.                                 *)
(***************************************************************************)
C1_StoredIsClamped ==
    /\ last.op = "record_decision" =>
          \A i \in DecisionsWithId(decisions, last.ret) :
              decisions[i].confidence =
                  IF last.confidence < 0 THEN 0
                  ELSE IF last.confidence > Q THEN Q ELSE last.confidence
    /\ (last.op = "record_outcome" /\ last.ret) =>
          \A i \in DecisionsWithId(decisions, last.id) :
              decisions[i].outcome_score =
                  IF last.score < 0 - Q THEN 0 - Q
                  ELSE IF last.score > Q THEN Q ELSE last.score

\* An outcome was recorded with a score above the range on a decision whose
\* confidence was clamped to a bound.
C1_Witness ==
    /\ last.op = "record_outcome" /\ last.ret /\ last.score > Q
    /\ \E i \in DecisionsWithId(decisions, last.id) :
          decisions[i].outcome_score = Q /\ decisions[i].confidence \in {0, Q}

(***************************************************************************)
(* C3 (as stated): record_outcome on an existing id returns true and       *)
(* leaves the decision resolved with the clamped score and the outcome     *)
(* given; on an unknown id it returns false and changes no decision,       *)
(* pattern or knowledge row.                                               *)
(***************************************************************************)
C3_ScoreStored(a, row) ==
    /\ row.resolved
    /\ row.outcome_score = IF a.score < 0 - Q THEN 0 - Q
                           ELSE IF a.score > Q THEN Q ELSE a.score

C3_UnknownId(a) ==
    /\ a.ret = FALSE
    /\ decisions' = decisions /\ patterns' = patterns
    /\ knowledge' = knowledge

C3_AsStated ==
    [][last'.op = "record_outcome" =>
          IF DecisionsWithId(decisions, last'.id) # {}
          THEN /\ last'.ret = TRUE
               /\ Len(decisions') = Len(decisions)
               /\ \A i \in DecisionsWithId(decisions, last'.id) :
                     /\ C3_ScoreStored(last', decisions'[i])
                     /\ decisions'[i].outcome = last'.outcome
          ELSE C3_UnknownId(last')]_vars

(***************************************************************************)
(* C3 (amended): as above, the stored outcome being the first 2000         *)
(* characters of the outcome given.                                        *)
(***************************************************************************)
C3_OutcomeContract ==
    [][last'.op = "record_outcome" =>
          IF DecisionsWithId(decisions, last'.id) # {}
          THEN /\ last'.ret = TRUE
               /\ Len(decisions') = Len(decisions)
               /\ \A i \in DecisionsWithId(decisions, last'.id) :
                     /\ C3_ScoreStored(last', decisions'[i])
                     /\ decisions'[i].outcome =
                            SubSeq(last'.outcome, 1,
                                   IF Len(last'.outcome) > 2000 THEN 2000
                                   ELSE Len(last'.outcome))
          ELSE C3_UnknownId(last')]_vars

\* An outcome recorded on an unknown id while a resolved decision exists.
C3_Witness ==
    /\ last.op = "record_outcome" /\ last.ret = FALSE
    /\ \E i \in 1..Len(decisions) :
          decisions[i].resolved /\ decisions[i].outcome = T_Won


(***************************************************************************)
(* SpecPatterns: add_pattern and deactivate_pattern on one connection.     *)
(***************************************************************************)
\* A pattern_type one character longer than the column's bound.
T_long_type == Rep("t", PATTERN_TYPE_MAX + 1)
PatTypes == {T_trend, T_long_type}
\* <<evidence_count, confidence>>: a confidence inside and above [0,1].
PatEvidence == {<<1, Pct(50)>>, <<2, Pct(150)>>}
PatIds == 1..(MaxPatterns + 1)

PatInit ==
    /\ decisions = <<>>
    /\ patterns = <<>>
    /\ knowledge = <<SeedKnowledge>>
    /\ nextKid = 2
    /\ clock = PlainTime
    /\ last = [op |-> "open"]
    /\ miner = Idle
    /\ conns = NoCalls
    /\ bus = NoEvents
    /\ kill = NoSwitch

PatAddPattern ==
    \E pattern_type \in PatTypes, e \in PatEvidence :
        /\ \/ Len(patterns) < MaxPatterns
           \/ ExistingPattern(patterns, pattern_type, T_X) # {}
        /\ \A i \in 1..Len(patterns) : patterns[i].evidence_count <= MaxEvidence
        /\ add_pattern(pattern_type, T_X, e[1], e[2], <<>>)

PatDeactivatePattern == \E id \in PatIds : deactivate_pattern(id)

PatNext == PatAddPattern \/ PatDeactivatePattern

SpecPatterns == PatInit /\ [][PatNext]_vars

(***************************************************************************)
(* C4 (as stated): after any sequence of add_pattern and                   *)
(* deactivate_pattern calls, for pattern_type and description texts of any *)
(* length, the store holds at most one active row per (pattern_type,       *)
(* description) pair.                                                      *)
(***************************************************************************)
C4_OneActivePerPair ==
    \A i, j \in 1..Len(patterns) :
        (/\ patterns[i].active /\ patterns[j].active
         /\ patterns[i].pattern_type = patterns[j].pattern_type
         /\ patterns[i].description = patterns[j].description) => i = j

(***************************************************************************)
(* C5: add_pattern(type, desc, e, c), when an active row with identical    *)
(* (type, desc) exists, inserts no row, returns that row's id and sets its *)
(* evidence_count to old + e and its confidence to min(0.99, old + 0.05);  *)
(* otherwise it inserts exactly one new active row with evidence_count e   *)
(* and confidence c clamped into [0,1].                                    *)
(***************************************************************************)
C5_Matching(a) ==
    {i \in 1..Len(patterns) : /\ patterns[i].active
                              /\ patterns[i].pattern_type = a.pattern_type
                              /\ patterns[i].description = a.description}

C5_Reinforced(a) ==
    /\ Len(patterns') = Len(patterns)
    /\ \E i \in C5_Matching(a) :
          /\ a.ret = patterns[i].id
          /\ patterns'[i].id = patterns[i].id
          /\ patterns'[i].active
          /\ patterns'[i].evidence_count =
                 patterns[i].evidence_count + a.evidence_count
          /\ patterns'[i].confidence =
                 IF patterns[i].confidence + Pct(5) > Pct(99) THEN Pct(99)
                 ELSE patterns[i].confidence + Pct(5)
          /\ \A j \in 1..Len(patterns) : j # i => patterns'[j] = patterns[j]

C5_Inserted(a) ==
    /\ Len(patterns') = Len(patterns) + 1
    /\ \A j \in 1..Len(patterns) : patterns'[j] = patterns[j]
    /\ LET new == patterns'[Len(patterns')]
       IN /\ new.id = a.ret
          /\ \A j \in 1..Len(patterns) : patterns[j].id # new.id
          /\ new.active
          /\ new.evidence_count = a.evidence_count
          /\ new.confidence = IF a.confidence < 0 THEN 0
                              ELSE IF a.confidence > Q THEN Q ELSE a.confidence

C5_AddPatternContract ==
    [][last'.op = "add_pattern" =>
          IF C5_Matching(last') # {} THEN C5_Reinforced(last')
          ELSE C5_Inserted(last')]_vars

\* add_pattern("trend", "X", 1, 0.5) was called twice: one active row with
\* evidence_count 2 and confidence 0.55.
C5_Witness ==
    /\ last.op = "add_pattern" /\ last.pattern_type = T_trend
    /\ last.evidence_count = 1 /\ last.confidence = Pct(50)
    /\ Len(patterns) = 1
    /\ patterns[1].active /\ patterns[1].evidence_count = 2
    /\ patterns[1].confidence = Pct(55)


(***************************************************************************)
(* SpecKnowledge: set_knowledge and get_knowledge on one connection while  *)
(* time passes.  The store is opened on an ordinary day, or shortly before *)
(* the clocks go forward (2026-03-08) or back (2026-11-01).                *)
(***************************************************************************)
\* A category one character longer than the column's bound.
T_long_category == Rep("c", CATEGORY_MAX + 1)
\* <<category, value, ttl_hours>>: a fact that never expires and is later
\* overwritten by one that lives an hour; a fact under the long category.
KnowFacts == {<<T_risk, T_high, 0>>, <<T_risk, T_low, 1>>, <<T_long_category, T_high, 0>>}
KnowStarts == {PlainTime, DstStart - 2, DstEnd - 4}

KnowInit ==
    /\ decisions = <<>>
    /\ patterns = <<SeedPattern>>
    /\ knowledge = <<>>
    /\ nextKid = 1
    /\ clock \in KnowStarts
    /\ last = [op |-> "open"]
    /\ miner = Idle
    /\ conns = NoCalls
    /\ bus = NoEvents
    /\ kill = NoSwitch

KnowSetKnowledge ==
    \E f \in KnowFacts :
        /\ \/ Len(knowledge) < MaxKnowledge
           \/ ExistingKnowledge(knowledge, f[1], T_btc_vol) # {}
        /\ set_knowledge(f[1], T_btc_vol, f[2], T_atlas, f[3])

KnowGetKnowledge == \E category \in {<<>>, T_risk} : get_knowledge(category, <<>>)

KnowTick ==
    /\ \E start \in KnowStarts : start <= clock /\ clock < start + MaxTicks
    /\ Tick

KnowNext == KnowSetKnowledge \/ KnowGetKnowledge \/ KnowTick

SpecKnowledge == KnowInit /\ [][KnowNext]_vars

(***************************************************************************)
(* C6 (as stated): after any sequence of set_knowledge and get_knowledge   *)
(* calls, for category and key texts of any length, the store holds at     *)
(* most one knowledge row per (category, key) pair; the row holds the      *)
(* value, source and ttl of the most recent set_knowledge call for the     *)
(* pair, and a call for a pair that has a row returns that row's id.       *)
(***************************************************************************)
C6_OneRowPerPair(rows) ==
    \A i, j \in 1..Len(rows) :
        (rows[i].category = rows[j].category /\ rows[i].key = rows[j].key)
            => i = j

C6_HoldsLatest(a, rows) ==
    \E i \in 1..Len(rows) :
        /\ rows[i].id = a.ret
        /\ rows[i].value = a.value /\ rows[i].source = a.source
        /\ rows[i].ttl_hours = a.ttl_hours

C6_KeepsId(a, rows) ==
    \A i \in 1..Len(rows) :
        (rows[i].category = a.category /\ rows[i].key = a.key)
            => a.ret = rows[i].id

C6_UpsertByPair ==
    [][/\ C6_OneRowPerPair(knowledge')
       /\ last'.op = "set_knowledge" =>
             C6_HoldsLatest(last', knowledge') /\ C6_KeepsId(last', knowledge)
      ]_vars

(***************************************************************************)
(* C7 (as stated): a fact written with ttl_hours = t > 0 at time T is      *)
(* returned by every get_knowledge call made while now <= T + t hours, and *)
(* is absent from the result and from the store of every get_knowledge     *)
(* call made once now exceeds T + t hours; a fact written with             *)
(* ttl_hours = 0 is never removed.                                         *)
(***************************************************************************)
\* The instant (UTC half-hours) a row's created_at text denotes.
C7_WrittenAt(row) == row.created_at[1] + 2 * row.created_at[2]

C7_Returned(row, a) ==
    /\ \E i \in 1..Len(knowledge') : knowledge'[i] = row
    /\ \E i \in 1..Len(a.ret) : a.ret[i] = row

C7_Gone(row, a) ==
    /\ \A i \in 1..Len(knowledge') : knowledge'[i].id # row.id
    /\ \A i \in 1..Len(a.ret) : a.ret[i].id # row.id

C7_ExpiresAfterTtl ==
    [][(last'.op = "get_knowledge" /\ last'.category = <<>>) =>
          \A i \in 1..Len(knowledge) :
              LET row == knowledge[i]
              IN IF /\ row.ttl_hours > 0
                    /\ clock > C7_WrittenAt(row) + 2 * row.ttl_hours
                 THEN C7_Gone(row, last')
                 ELSE C7_Returned(row, last')]_vars


(***************************************************************************)
(* Text functions of the relevance retriever (agent_memory.py,             *)
(* get_relevant_context): str.split(), str.lower(), SQLite LOWER and LIKE. *)
(***************************************************************************)
AsciiUpper == <<"A", "B", "C", "D", "E", "F", "G", "H", "I", "J", "K", "L", "M", "N", "O", "P", "Q", "R", "S", "T", "U", "V", "W", "X", "Y", "Z">>
AsciiLower == <<"a", "b", "c", "d", "e", "f", "g", "h", "i", "j", "k", "l", "m", "n", "o", "p", "q", "r", "s", "t", "u", "v", "w", "x", "y", "z">>

\* A character with its ASCII letter lower-cased: what SQLite's LOWER() and
\* the case folding of LIKE do (both leave a non-ASCII letter as it is).
LowerAscii(c) ==
    IF \E k \in 1..26 : AsciiUpper[k] = c
    THEN AsciiLower[CHOOSE k \in 1..26 : AsciiUpper[k] = c]
    ELSE c

\* str.lower() also lower-cases a non-ASCII letter.  The one such letter of
\* the model is written "U+00C9" (E acute), its lower case "U+00E9".
LowerPy(s) ==
    [i \in 1..Len(s) |-> IF s[i] = "U+00C9" THEN "U+00E9" ELSE LowerAscii(s[i])]

\* LOWER(context)
LowerSql(s) == [i \in 1..Len(s) |-> LowerAscii(s[i])]

IsSpace(c) == c \in {" ", "\t", "\n"}

\* situation.split(): the maximal runs of non-whitespace characters.
RECURSIVE SplitWords(_, _, _)
SplitWords(s, cur, acc) ==
    IF s = <<>> THEN (IF cur = <<>> THEN acc ELSE Append(acc, cur))
    ELSE IF IsSpace(Head(s))
         THEN SplitWords(Tail(s), <<>>, IF cur = <<>> THEN acc ELSE Append(acc, cur))
         ELSE SplitWords(Tail(s), Append(cur, Head(s)), acc)

MIN_WORD_LEN == 3
MAX_KEYWORDS == 10

\* words = [w.lower() for w in situation.split() if len(w) >= 3]
Words(situation) ==
    LET all == SplitWords(situation, <<>>, <<>>)
        Long(w) == Len(w) >= MIN_WORD_LEN
        kept == SelectSeq(all, Long)
    IN [i \in 1..Len(kept) |-> LowerPy(kept[i])]

\* text LIKE pattern: "%" matches any run of characters, "_" any one
\* character, any other character itself up to ASCII case.
RECURSIVE Like(_, _)
Like(pattern, text) ==
    IF pattern = <<>> THEN text = <<>>
    ELSE IF Head(pattern) = "%"
         THEN Like(Tail(pattern), text) \/ (text # <<>> /\ Like(pattern, Tail(text)))
         ELSE /\ text # <<>>
              /\ \/ Head(pattern) = "_"
                 \/ LowerAscii(Head(pattern)) = LowerAscii(Head(text))
              /\ Like(Tail(pattern), Tail(text))

\* params = [f"%{w}%" for w in words[:10]]
LikeParams(words) ==
    LET capped == Slice(words, MAX_KEYWORDS)
    IN [i \in 1..Len(capped) |-> <<"%">> \o capped[i] \o <<"%">>]

\* ORDER BY timestamp DESC.  The clock of the model is coarser than the
\* texts: two calls of the same half-hour get texts that differ in their
\* seconds, the later call (the larger id) the larger text.
DecisionPrecedes(a, b) ==
    \/ IsoLess(b.timestamp, a.timestamp)
    \/ b.timestamp = a.timestamp /\ b.id < a.id

DecisionOrder(rows) ==
    {p \in (1..Len(rows)) \X (1..Len(rows)) : DecisionPrecedes(rows[p[1]], rows[p[2]])}

\* LIMIT ?: a negative limit is no limit.
Limit(rows, limit) == IF limit < 0 THEN rows ELSE Slice(rows, limit)

\* The outcomes of get_relevant_context.  The statement holds one "?" per
\* word in each of its two copies of the conditions, plus one for LIMIT;
\* execute() raises ProgrammingError when the bindings it is given are not
\* as many.
GetRelevantContext(rows, situation, limit) ==
    LET words == Words(situation)
        params == LikeParams(words)
        placeholders == 2 * Len(words) + 1
        bindings == 2 * Len(params) + 1
        Match(r) == \E i \in 1..Len(params) : Like(params[i], LowerSql(r.context))
        matched == SelectSeq(rows, Match)
    IN IF words = <<>> THEN {[raised |-> FALSE, ret |-> <<>>]}
       ELSE IF bindings # placeholders THEN {[raised |-> TRUE, ret |-> <<>>]}
       ELSE {[raised |-> FALSE, ret |-> Limit(res, limit)] :
                res \in OrderedBy(matched, DecisionOrder(matched))}

get_relevant_context(situation, limit) ==
    /\ \E r \in GetRelevantContext(decisions, situation, limit) :
          last' = [op |-> "get_relevant_context", situation |-> situation,
                   limit |-> limit, raised |-> r.raised, ret |-> r.ret]
    /\ UNCHANGED <<decisions, patterns, knowledge, nextKid, clock, miner, conns, bus, kill>>


(***************************************************************************)
(* SpecRelevance: decisions are recorded while time passes and             *)
(* get_relevant_context is asked about them.                               *)
(***************************************************************************)
\* "BTC-USD dropped", "ETH staking rewards"
T_ctx_btc == <<"B", "T", "C", "-", "U", "S", "D", " ", "d", "r", "o", "p", "p", "e", "d">>
T_ctx_eth == <<"E", "T", "H", " ", "s", "t", "a", "k", "i", "n", "g", " ", "r", "e", "w", "a", "r", "d", "s">>
\* "BTC high", "btc_usd trade", "an eth", "a b"
T_sit_btc == <<"B", "T", "C", " ", "h", "i", "g", "h">>
T_sit_pair == <<"b", "t", "c", "_", "u", "s", "d", " ", "t", "r", "a", "d", "e">>
T_sit_eth == <<"a", "n", " ", "e", "t", "h">>
T_sit_short == <<"a", " ", "b">>
\* "eth xyz xyz xyz xyz xyz xyz xyz xyz xyz xyz": eleven words.
T_sit_eleven == <<"e", "t", "h", " ", "x", "y", "z", " ", "x", "y", "z", " ", "x", "y", "z", " ", "x", "y", "z", " ", "x", "y", "z", " ", "x", "y", "z", " ", "x", "y", "z", " ", "x", "y", "z", " ", "x", "y", "z", " ", "x", "y", "z">>

RelContexts == {T_ctx_btc, T_ctx_eth}
RelSituations == {T_sit_btc, T_sit_pair, T_sit_eth, T_sit_short, T_sit_eleven}
RelLimits == {1, 5}
RelStarts == {PlainTime, DstEnd - 2}

RelInit ==
    /\ decisions = <<>>
    /\ patterns = <<>>
    /\ knowledge = <<>>
    /\ nextKid = 1
    /\ clock \in RelStarts
    /\ last = [op |-> "open"]
    /\ miner = Idle
    /\ conns = NoCalls
    /\ bus = NoEvents
    /\ kill = NoSwitch

RelRecordDecision ==
    /\ Len(decisions) < MaxDecisions
    /\ \E context \in RelContexts :
          record_decision(context, T_high, <<>>, Pct(50), <<>>)

RelGetRelevantContext ==
    \E situation \in RelSituations, limit \in RelLimits :
        get_relevant_context(situation, limit)

RelTick ==
    /\ \E start \in RelStarts : start <= clock /\ clock < start + MaxTicks
    /\ Tick

RelNext == RelRecordDecision \/ RelGetRelevantContext \/ RelTick

SpecRelevance == RelInit /\ [][RelNext]_vars

\* text contains token as a substring.
Contains(text, token) ==
    \E k \in 0..(Len(text) - Len(token)) :
        SubSeq(text, k + 1, k + Len(token)) = token

\* The rows of `rows` from the last recorded to the first.
NewestFirst(rows) == [i \in 1..Len(rows) |-> rows[Len(rows) + 1 - i]]

\* The decisions whose lower-cased context contains one of the tokens,
\* newest first, at most `limit` of them.
RelevantTo(tokens, limit) ==
    LET Hit(r) == \E i \in 1..Len(tokens) : Contains(LowerPy(r.context), tokens[i])
        hits == NewestFirst(SelectSeq(decisions, Hit))
    IN SubSeq(hits, 1, IF Len(hits) < limit THEN Len(hits) ELSE limit)

(***************************************************************************)
(* C8 (as stated): for a situation with 1 to 10 qualifying tokens,         *)
(* get_relevant_context returns exactly the decisions whose lower-cased    *)
(* context contains at least one token as a substring, newest first and    *)
(* cut to limit; with no qualifying token it returns an empty sequence.    *)
(***************************************************************************)
C8_ExactlyTheRelevant ==
    last.op = "get_relevant_context" =>
        LET tokens == Words(last.situation)
        IN /\ Len(tokens) = 0 => (~last.raised /\ last.ret = <<>>)
           /\ (Len(tokens) >= 1 /\ Len(tokens) <= 10) =>
                 (~last.raised /\ last.ret = RelevantTo(tokens, last.limit))

(***************************************************************************)
(* C9 (as stated): for a situation with more than 10 qualifying tokens the *)
(* call succeeds and returns the decisions whose context matches any of    *)
(* the first 10 tokens; the tokens after the tenth have no influence.      *)
(***************************************************************************)
C9_CapsAtTenTokens ==
    last.op = "get_relevant_context" =>
        LET tokens == Words(last.situation)
        IN Len(tokens) > 10 =>
              /\ ~last.raised
              /\ last.ret = RelevantTo(SubSeq(tokens, 1, 10), last.limit)


(***************************************************************************)
(* Stats and recent decisions (agent_memory.py, get_stats /                *)
(* get_recent_decisions).                                                  *)
(***************************************************************************)
\* A faulty count: resolved_decisions counts every decision.
GetStatsCountsAll(decs, pats, know) ==
    [total_decisions |-> Len(decs),
     resolved_decisions |-> Len(decs),
     unresolved_decisions |-> 0,
     active_patterns |-> Cardinality({i \in 1..Len(pats) : pats[i].active}),
     total_knowledge |-> Len(know),
     win_count |-> Cardinality({i \in 1..Len(decs) : decs[i].outcome_score > 0}),
     loss_count |-> Cardinality({i \in 1..Len(decs) : decs[i].outcome_score < 0})]

\* A faulty get_stats: a kept counter of resolved decisions that every
\* record_decision bumps.
GetStatsByCounter(decs, pats, know) ==
    LET resolved == {i \in 1..Len(decs) : decs[i].resolved}
    IN [total_decisions |-> Len(decs),
        resolved_decisions |-> Len(decs),
        unresolved_decisions |-> 0,
        active_patterns |-> Cardinality({i \in 1..Len(pats) : pats[i].active}),
        total_knowledge |-> Len(know),
        win_count |-> Cardinality({i \in resolved : decs[i].outcome_score > 0}),
        loss_count |-> Cardinality({i \in resolved : decs[i].outcome_score < 0})]

\* The counts of get_stats.
GetStats(decs, pats, know) ==
    LET resolved == {i \in 1..Len(decs) : decs[i].resolved}
    IN [total_decisions |-> Len(decs),
        resolved_decisions |-> Cardinality(resolved),
        unresolved_decisions |-> Len(decs) - Cardinality(resolved),
        active_patterns |-> Cardinality({i \in 1..Len(pats) : pats[i].active}),
        total_knowledge |-> Len(know),
        win_count |-> Cardinality({i \in resolved : decs[i].outcome_score > 0}),
        loss_count |-> Cardinality({i \in resolved : decs[i].outcome_score < 0})]

\* The results get_recent_decisions may return.
GetRecentDecisions(rows, limit, resolved_only) ==
    LET Keep(r) == resolved_only => r.resolved
        kept == SelectSeq(rows, Keep)
    IN {Limit(res, limit) : res \in OrderedBy(kept, DecisionOrder(kept))}

(***************************************************************************)
(* Pattern miner (pattern_miner.py).                                       *)
(***************************************************************************)
MIN_EVIDENCE == 3
\* MIN_CONFIDENCE = 0.55, in hundredths.
MIN_CONFIDENCE == 55
RECENT_LIMIT == 500

RECURSIVE SumSeq(_)
SumSeq(ns) == IF ns = <<>> THEN 0 ELSE Head(ns) + SumSeq(Tail(ns))

\* How many times x occurs in seq.
Occurrences(seq, x) == Cardinality({i \in 1..Len(seq) : seq[i] = x})

\* The elements of seq in order of first occurrence.
Distinct(seq, acc) ==
    LET First(i) == /\ \A j \in 1..(i - 1) : seq[j] # seq[i]
                    /\ Occurrences(acc, seq[i]) = 0
        firsts == SelectSeq([i \in 1..Len(seq) |-> i], First)
    IN acc \o [k \in 1..Len(firsts) |-> seq[firsts[k]]]

RECURSIVE Flatten(_)
Flatten(seqs) == IF seqs = <<>> THEN <<>> ELSE Head(seqs) \o Flatten(Tail(seqs))

\* str(n) for n >= 0.
RECURSIVE Digits(_)
Digits(n) ==
    LET d == <<"0", "1", "2", "3", "4", "5", "6", "7", "8", "9">>[(n % 10) + 1]
    IN IF n < 10 THEN <<d>> ELSE Append(Digits(n \div 10), d)

\* num/den rounded to an integer, a half to the even neighbour.
RoundHalfEven(num, den) ==
    LET q == num \div den
        r == num % den
    IN IF 2 * r < den THEN q
       ELSE IF 2 * r > den THEN q + 1
       ELSE IF q % 2 = 0 THEN q ELSE q + 1

\* w / den as a REAL (1/Q units); exact for every den the model reaches.
WinRate(w, den) == (w * Q) \div den

\* f"{wr:.0%}"
Percent(wr) == Digits(RoundHalfEven(wr * 100, Q)) \o <<"%">>

\* One add_pattern call of the miner.
Call(pattern_type, description, evidence_count, confidence) ==
    [pattern_type |-> pattern_type, description |-> description,
     evidence_count |-> evidence_count, confidence |-> confidence]

T_tag_performance == <<"t", "a", "g", "_", "p", "e", "r", "f", "o", "r", "m", "a", "n", "c", "e">>
T_keyword_signal == <<"k", "e", "y", "w", "o", "r", "d", "_", "s", "i", "g", "n", "a", "l">>
T_calibration == <<"c", "a", "l", "i", "b", "r", "a", "t", "i", "o", "n">>
T_temporal == <<"t", "e", "m", "p", "o", "r", "a", "l">>

\* Strategy 1: wins, losses and total of a tag over the resolved decisions.
TagCounts(resolved, tag) ==
    LET n == Len(resolved)
    IN [total |-> SumSeq([i \in 1..n |-> Occurrences(resolved[i].tags, tag)]),
        wins |-> SumSeq([i \in 1..n |->
                    IF resolved[i].outcome_score > 0
                    THEN Occurrences(resolved[i].tags, tag) ELSE 0]),
        losses |-> SumSeq([i \in 1..n |->
                    IF resolved[i].outcome_score < 0
                    THEN Occurrences(resolved[i].tags, tag) ELSE 0])]

\* wr = wins / max(1, wins + losses)
TagWinRate(counts) == WinRate(counts.wins, Max(1, counts.wins + counts.losses))

\* wr >= MIN_CONFIDENCE or wr <= (1 - MIN_CONFIDENCE).  In floating point
\* 1 - 0.55 is 0.44999999999999996, below the float of every fraction equal
\* to 0.45, so the second test is wr < 0.45 on exact values.
TagSignificant(wr) == wr >= Pct(MIN_CONFIDENCE) \/ wr < Pct(100 - MIN_CONFIDENCE)

\* f"Tag '{tag}': {result} {wr:.0%} of the time ({wins}W/{losses}L over
\* {total} decisions)"
TagDescription(tag, counts, wr) ==
    <<"T", "a", "g", " ", "'">> \o tag \o <<"'", ":", " ">>
    \o (IF wr >= Pct(50) THEN <<"w", "i", "n", "s">> ELSE <<"l", "o", "s", "e", "s">>)
    \o <<" ">> \o Percent(wr) \o <<" ", "o", "f", " ", "t", "h", "e", " ", "t", "i", "m", "e", " ", "(">>
    \o Digits(counts.wins) \o <<"W", "/">> \o Digits(counts.losses)
    \o <<"L", " ", "o", "v", "e", "r", " ">> \o Digits(counts.total) \o <<" ", "d", "e", "c", "i", "s", "i", "o", "n", "s", ")">>

TagPatterns(resolved) ==
    LET tags == Distinct(Flatten([i \in 1..Len(resolved) |-> resolved[i].tags]), <<>>)
        Emits(tag) ==
            LET c == TagCounts(resolved, tag)
            IN c.total >= MIN_EVIDENCE /\ TagSignificant(TagWinRate(c))
        emitting == SelectSeq(tags, Emits)
    IN [k \in 1..Len(emitting) |->
           LET c == TagCounts(resolved, emitting[k])
               wr == TagWinRate(c)
           IN Call(T_tag_performance, TagDescription(emitting[k], c, wr), c.total,
                   IF wr >= Pct(50) THEN wr ELSE Q - wr)]

\* Strategy 2.
NoiseWords ==
    {<<"t", "h", "e">>, <<"a", "n", "d">>, <<"f", "o", "r">>,
     <<"w", "i", "t", "h">>, <<"f", "r", "o", "m">>, <<"t", "h", "i", "s">>,
     <<"t", "h", "a", "t">>, <<"w", "a", "s">>, <<"a", "r", "e">>,
     <<"h", "a", "s">>, <<"h", "a", "d">>, <<"b", "u", "t">>,
     <<"n", "o", "t">>, <<"y", "o", "u">>, <<"a", "l", "l">>,
     <<"c", "a", "n">>, <<"h", "e", "r">>, <<"h", "i", "s">>,
     <<"o", "n", "e">>, <<"o", "u", "r">>, <<"o", "u", "t">>,
     <<"d", "a", "y">>, <<"g", "e", "t">>, <<"g", "o", "t">>,
     <<"l", "e", "t">>, <<"m", "a", "y">>, <<"s", "a", "y">>,
     <<"s", "h", "e">>, <<"t", "o", "o">>, <<"u", "s", "e">>,
     <<"w", "a", "y">>, <<"w", "h", "o">>, <<"h", "o", "w">>,
     <<"i", "t", "s">>, <<"d", "i", "d">>, <<"n", "o", "w">>}

IsLowerLetter(c) == \E k \in 1..26 : AsciiLower[k] = c
IsWordChar(c) ==
    IsLowerLetter(c) \/ c \in {"0", "1", "2", "3", "4", "5", "6", "7", "8", "9", "_"}

\* re.findall(r'[a-z][a-z0-9_]+', text): left to right, each match as long
\* as possible and at least two characters.
RECURSIVE FindWords(_, _, _)
FindWords(s, cur, acc) ==
    LET done == IF Len(cur) >= 2 THEN Append(acc, cur) ELSE acc
    IN IF s = <<>> THEN done
       ELSE IF cur = <<>>
            THEN FindWords(Tail(s), IF IsLowerLetter(Head(s)) THEN <<Head(s)>> ELSE <<>>, acc)
            ELSE IF IsWordChar(Head(s))
                 THEN FindWords(Tail(s), Append(cur, Head(s)), acc)
                 ELSE FindWords(Tail(s), <<>>, done)

\* _extract_keywords(text)
ExtractKeywords(text) ==
    LET Keep(w) == w \notin NoiseWords /\ Len(w) >= 3
    IN SelectSeq(FindWords(LowerPy(text), <<>>, <<>>), Keep)

\* The counts with a score of exactly 0 taken as a win.
WordCountsZeroWins(resolved, word) ==
    LET n == Len(resolved)
    IN [w |-> SumSeq([i \in 1..n |->
                  IF resolved[i].outcome_score >= 0
                  THEN Occurrences(ExtractKeywords(resolved[i].context), word)
                  ELSE 0]),
        l |-> SumSeq([i \in 1..n |->
                  IF resolved[i].outcome_score < 0
                  THEN Occurrences(ExtractKeywords(resolved[i].context), word)
                  ELSE 0])]

\* win_words[word] and loss_words[word]: every occurrence counts.
WordCounts(resolved, word) ==
    LET n == Len(resolved)
    IN [w |-> SumSeq([i \in 1..n |->
                  IF resolved[i].outcome_score > 0
                  THEN Occurrences(ExtractKeywords(resolved[i].context), word)
                  ELSE 0]),
        l |-> SumSeq([i \in 1..n |->
                  IF resolved[i].outcome_score < 0
                  THEN Occurrences(ExtractKeywords(resolved[i].context), word)
                  ELSE 0])]

\* f"Keyword '{word}' in context: {wr:.0%} win rate ({w}W/{l}L)"
KeywordWinDescription(word, c, wr) ==
    <<"K", "e", "y", "w", "o", "r", "d", " ", "'">> \o word \o <<"'", " ", "i", "n", " ", "c", "o", "n", "t", "e", "x", "t", ":", " ">>
    \o Percent(wr) \o <<" ", "w", "i", "n", " ", "r", "a", "t", "e", " ", "(">> \o Digits(c.w) \o <<"W", "/">>
    \o Digits(c.l) \o <<"L", ")">>

\* f"Keyword '{word}' in context: {1-wr:.0%} loss rate ({l}L/{w}W)"
KeywordLossDescription(word, c, wr) ==
    <<"K", "e", "y", "w", "o", "r", "d", " ", "'">> \o word \o <<"'", " ", "i", "n", " ", "c", "o", "n", "t", "e", "x", "t", ":", " ">>
    \o Percent(Q - wr) \o <<" ", "l", "o", "s", "s", " ", "r", "a", "t", "e", " ", "(">> \o Digits(c.l) \o <<"L", "/">>
    \o Digits(c.w) \o <<"W", ")">>

\* The calls of strategy 2, listed in order of first occurrence of the word.
KeywordPatterns(resolved) ==
    LET scored == [i \in 1..Len(resolved) |->
                      IF resolved[i].outcome_score # 0
                      THEN ExtractKeywords(resolved[i].context) ELSE <<>>]
        words == Distinct(Flatten(scored), <<>>)
        Rate(word) == LET c == WordCounts(resolved, word) IN WinRate(c.w, c.w + c.l)
        Emits(word) ==
            LET c == WordCounts(resolved, word)
            IN /\ c.w + c.l >= MIN_EVIDENCE
               /\ (Rate(word) >= Pct(65) \/ Rate(word) <= Pct(35))
        emitting == SelectSeq(words, Emits)
    IN [k \in 1..Len(emitting) |->
           LET word == emitting[k]
               c == WordCounts(resolved, word)
               wr == Rate(word)
           IN IF wr >= Pct(65)
              THEN Call(T_keyword_signal, KeywordWinDescription(word, c, wr), c.w + c.l, wr)
              ELSE Call(T_keyword_signal, KeywordLossDescription(word, c, wr), c.w + c.l, Q - wr)]


\* Strategy 3.
HIGH_CONFIDENCE == 70
LOW_CONFIDENCE == 40

\* The share with a score of exactly 0 taken as a win.
BucketWinRateZeroWins(bucket) ==
    WinRate(Cardinality({i \in 1..Len(bucket) : bucket[i].outcome_score >= 0}),
            Len(bucket))

\* sum(1 for d in bucket if d.get("outcome_score", 0) > 0) / len(bucket)
BucketWinRate(bucket) ==
    WinRate(Cardinality({i \in 1..Len(bucket) : bucket[i].outcome_score > 0}),
            Len(bucket))

\* f"High-confidence decisions (>=0.7): actual win rate {high_wr:.0%} over
\* {len(high_conf)} decisions"
HighDescription(wr, n) ==
    <<"H", "i", "g", "h", "-", "c", "o", "n", "f", "i", "d", "e", "n", "c", "e", " ", "d", "e", "c", "i", "s", "i", "o", "n", "s", " ", "(", ">", "=", "0", ".", "7", ")", ":", " ", "a", "c", "t", "u", "a", "l", " ", "w", "i", "n", " ", "r", "a", "t", "e", " ">>
    \o Percent(wr) \o <<" ", "o", "v", "e", "r", " ">> \o Digits(n) \o <<" ", "d", "e", "c", "i", "s", "i", "o", "n", "s">>

\* f"Low-confidence decisions (<0.4): actual win rate {low_wr:.0%} over
\* {len(low_conf)} decisions"
LowDescription(wr, n) ==
    <<"L", "o", "w", "-", "c", "o", "n", "f", "i", "d", "e", "n", "c", "e", " ", "d", "e", "c", "i", "s", "i", "o", "n", "s", " ", "(", "<", "0", ".", "4", ")", ":", " ", "a", "c", "t", "u", "a", "l", " ", "w", "i", "n", " ", "r", "a", "t", "e", " ">>
    \o Percent(wr) \o <<" ", "o", "v", "e", "r", " ">> \o Digits(n) \o <<" ", "d", "e", "c", "i", "s", "i", "o", "n", "s">>

CalibrationPatterns(resolved) ==
    LET High(d) == d.confidence >= Pct(HIGH_CONFIDENCE)
        Low(d) == d.confidence < Pct(LOW_CONFIDENCE)
        high_conf == SelectSeq(resolved, High)
        low_conf == SelectSeq(resolved, Low)
        high_wr == BucketWinRate(high_conf)
        low_wr == BucketWinRate(low_conf)
    IN (IF Len(high_conf) >= MIN_EVIDENCE
        THEN <<Call(T_calibration, HighDescription(high_wr, Len(high_conf)),
                    Len(high_conf), high_wr)>>
        ELSE <<>>)
       \o (IF Len(low_conf) >= MIN_EVIDENCE
           THEN <<Call(T_calibration, LowDescription(low_wr, Len(low_conf)),
                       Len(low_conf), Max(low_wr, Q - low_wr))>>
           ELSE <<>>)

\* Strategy 4.
\* int(ts.split("T")[1].split(":")[0]): the hour of the wall time.
HourOf(timestamp) == (timestamp[1] \div 2) % 24

HourCounts(resolved, hour) ==
    [wins |-> Cardinality({i \in 1..Len(resolved) :
                  HourOf(resolved[i].timestamp) = hour /\ resolved[i].outcome_score > 0}),
     losses |-> Cardinality({i \in 1..Len(resolved) :
                  HourOf(resolved[i].timestamp) = hour /\ resolved[i].outcome_score < 0})]

Period(hour) ==
    IF 6 <= hour /\ hour < 12 THEN <<"m", "o", "r", "n", "i", "n", "g">>
    ELSE IF 12 <= hour /\ hour < 18 THEN <<"a", "f", "t", "e", "r", "n", "o", "o", "n">>
    ELSE IF 18 <= hour /\ hour < 22 THEN <<"e", "v", "e", "n", "i", "n", "g">>
    ELSE <<"n", "i", "g", "h", "t">>

\* f"Hour {hour}:00 ({period}): {result} — {wr:.0%} WR ({wins}W/{losses}L)"
\* ("U+2014" is the dash).
HourDescription(hour, c, wr) ==
    <<"H", "o", "u", "r", " ">> \o Digits(hour) \o <<":", "0", "0", " ", "(">> \o Period(hour) \o <<")", ":", " ">>
    \o (IF wr >= Pct(50) THEN <<"f", "a", "v", "o", "r", "a", "b", "l", "e">> ELSE <<"u", "n", "f", "a", "v", "o", "r", "a", "b", "l", "e">>)
    \o <<" ", "U+2014", " ">> \o Percent(wr) \o <<" ", "W", "R", " ", "(">>
    \o Digits(c.wins) \o <<"W", "/">> \o Digits(c.losses) \o <<"L", ")">>

TemporalPatterns(resolved) ==
    LET scored == SelectSeq([i \in 1..Len(resolved) |->
                                IF resolved[i].outcome_score # 0
                                THEN HourOf(resolved[i].timestamp) ELSE 0 - 1],
                            LAMBDA h : h >= 0)
        hours == Distinct(scored, <<>>)
        Rate(hour) ==
            LET c == HourCounts(resolved, hour) IN WinRate(c.wins, c.wins + c.losses)
        Emits(hour) ==
            LET c == HourCounts(resolved, hour)
            IN /\ c.wins + c.losses >= MIN_EVIDENCE
               /\ (Rate(hour) >= Pct(70) \/ Rate(hour) <= Pct(30))
        emitting == SelectSeq(hours, Emits)
    IN [k \in 1..Len(emitting) |->
           LET hour == emitting[k]
               c == HourCounts(resolved, hour)
               wr == Rate(hour)
           IN Call(T_temporal, HourDescription(hour, c, wr), c.wins + c.losses,
                   IF wr >= Pct(50) THEN wr ELSE Q - wr)]

\* The add_pattern calls one run may make, in order.  Strategy 2 walks a
\* set of words, so its calls come in any order.
MineCalls(resolved) ==
    {TagPatterns(resolved) \o keyword \o CalibrationPatterns(resolved)
         \o TemporalPatterns(resolved) :
       keyword \in OrderedBy(KeywordPatterns(resolved), {})}

\* The patterns tables the calls may leave.
RECURSIVE ApplyCalls(_, _, _)
ApplyCalls(rows, calls, now) ==
    IF calls = <<>> THEN {rows}
    ELSE UNION {ApplyCalls(r.rows, Tail(calls), now) :
                  r \in AddPatternResults(rows, now, Head(calls).pattern_type,
                            Head(calls).description, Head(calls).evidence_count,
                            Head(calls).confidence, <<>>)}

\* A faulty test: either condition is enough.
WeakEither(p) == p.evidence_count <= 1 \/ p.confidence < Pct(50)

\* if p["evidence_count"] <= 1 and p["confidence"] < 0.5
Weak(p) == p.evidence_count <= 1 /\ p.confidence < Pct(50)

\* for p in all_patterns: ... mem.deactivate_pattern(p["id"])
RECURSIVE PruneWeak(_, _)
PruneWeak(rows, all_patterns) ==
    IF all_patterns = <<>> THEN rows
    ELSE PruneWeak(IF Weak(Head(all_patterns))
                   THEN Deactivate(rows, Head(all_patterns).id) ELSE rows,
                   Tail(all_patterns))

\* mine_agent up to the early return: get_stats, the MIN_EVIDENCE test and
\* the read of the resolved decisions.
mine_start ==
    /\ miner.pc = "idle"
    /\ LET stats == GetStats(decisions, patterns, knowledge)
       IN IF stats.resolved_decisions < MIN_EVIDENCE
          THEN /\ miner' = Idle
               /\ last' = [op |-> "mine_agent",
                           ret |-> [skipped |-> TRUE, reason |-> "insufficient_data",
                                    resolved |-> stats.resolved_decisions]]
          ELSE /\ \E resolved \in GetRecentDecisions(decisions, RECENT_LIMIT, TRUE) :
                     miner' = [pc |-> "strategies", stats |-> stats,
                               resolved |-> resolved]
               /\ last' = [op |-> "mine_start"]
    /\ UNCHANGED <<decisions, patterns, knowledge, nextKid, clock, conns, bus, kill>>

\* The four strategies: every add_pattern call of the run.
mine_strategies ==
    /\ miner.pc = "strategies"
    /\ \E calls \in MineCalls(miner.resolved) :
          /\ patterns' \in ApplyCalls(patterns, calls, IsoNow(clock))
          /\ miner' = [pc |-> "prune", stats |-> miner.stats,
                       new_patterns |-> [k \in 1..Len(calls) |-> calls[k].description]]
          /\ last' = [op |-> "mine_strategies", calls |-> calls]
    /\ UNCHANGED <<decisions, knowledge, nextKid, clock, conns, bus, kill>>

\* A faulty run: it ends by deleting the decisions it analysed.
mine_prune_purging ==
    /\ miner.pc = "prune"
    /\ \E all_patterns \in GetActivePatterns(patterns, None, 0) :
          LET pruned == Cardinality({i \in 1..Len(all_patterns) : Weak(all_patterns[i])})
          IN /\ patterns' = PruneWeak(patterns, all_patterns)
             /\ last' = [op |-> "mine_agent",
                         ret |-> [skipped |-> FALSE,
                                  resolved_decisions |-> miner.stats.resolved_decisions,
                                  patterns_extracted |-> Len(miner.new_patterns),
                                  patterns_pruned |-> pruned,
                                  total_active_patterns |->
                                      miner.stats.active_patterns
                                      + Len(miner.new_patterns) - pruned,
                                  new_patterns |-> miner.new_patterns]]
    /\ miner' = Idle
    /\ decisions' = <<>>
    /\ UNCHANGED <<knowledge, nextKid, clock, conns, bus, kill>>

\* The prune step and the result of the run.
mine_prune ==
    /\ miner.pc = "prune"
    /\ \E all_patterns \in GetActivePatterns(patterns, None, 0) :
          LET pruned == Cardinality({i \in 1..Len(all_patterns) : Weak(all_patterns[i])})
          IN /\ patterns' = PruneWeak(patterns, all_patterns)
             /\ last' = [op |-> "mine_agent",
                         ret |-> [skipped |-> FALSE,
                                  resolved_decisions |-> miner.stats.resolved_decisions,
                                  patterns_extracted |-> Len(miner.new_patterns),
                                  patterns_pruned |-> pruned,
                                  total_active_patterns |->
                                      miner.stats.active_patterns
                                      + Len(miner.new_patterns) - pruned,
                                  new_patterns |-> miner.new_patterns]]
    /\ miner' = Idle
    /\ UNCHANGED <<decisions, knowledge, nextKid, clock, conns, bus, kill>>


(***************************************************************************)
(* A store written by an agent and mined by the pattern miner.             *)
(***************************************************************************)
T_breakout == <<"b", "r", "e", "a", "k", "o", "u", "t">>
T_ctx_breakout == <<"b", "t", "c", " ", "b", "r", "e", "a", "k", "o", "u", "t">>
T_ctx_dip == <<"e", "t", "h", " ", "d", "i", "p">>
T_Y == <<"Y">>
T_buy == <<"b", "u", "y">>

\* <<context, confidence, tags>> of the decisions the agent records.
MinerTemplates ==
    {<<T_ctx_breakout, Pct(80), <<T_breakout>>>>, <<T_ctx_dip, Pct(30), <<>>>>}
MinerScores == {Pct(50), Pct(0 - 50)}
\* <<description, evidence_count, confidence>> of the patterns the agent
\* adds by hand.
MinerManual == {<<T_X, 1, Pct(30)>>, <<T_Y, 1, Pct(60)>>}

MinerInit ==
    /\ decisions = <<>>
    /\ patterns = <<>>
    /\ knowledge = <<>>
    /\ nextKid = 1
    /\ clock = PlainTime
    /\ last = [op |-> "open"]
    /\ miner = Idle
    /\ conns = NoCalls
    /\ bus = NoEvents
    /\ kill = NoSwitch

\* The agent works on a store the miner has not yet written a pattern to.
Unmined == \A i \in 1..Len(patterns) : patterns[i].pattern_type = T_trend

MinerRecordDecision ==
    /\ miner.pc = "idle"
    /\ Unmined
    /\ Len(decisions) < MinerDecisions
    /\ \E t \in MinerTemplates : record_decision(t[1], T_buy, <<>>, t[2], t[3])

MinerRecordOutcome ==
    /\ miner.pc = "idle"
    /\ Unmined
    /\ \E id \in 1..MinerDecisions, score \in MinerScores :
          record_outcome(id, T_Won, score)

MinerAddPattern ==
    /\ miner.pc = "idle"
    /\ Len(patterns) < MinerPatterns
    /\ \E m \in MinerManual :
          /\ \A i \in 1..Len(patterns) : patterns[i].description # m[1]
          /\ add_pattern(T_trend, m[1], m[2], m[3], <<>>)

MinerMineStart ==
    /\ Len(patterns) <= MinerPatterns
    /\ \A i \in 1..Len(patterns) : patterns[i].evidence_count <= MinerEvidence
    /\ mine_start

MinerNext ==
    \/ MinerRecordDecision
    \/ MinerRecordOutcome
    \/ MinerAddPattern
    \/ MinerMineStart
    \/ mine_strategies
    \/ mine_prune

SpecMiner == MinerInit /\ [][MinerNext]_vars

(***************************************************************************)
(* C2: in every reachable state every decision with resolved = false has   *)
(* outcome "" and outcome_score 0.0, whatever record_decision,             *)
(* record_outcome and mining calls were applied.                           *)
(***************************************************************************)
C2_UnresolvedIsBlank ==
    \A i \in 1..Len(decisions) :
        ~decisions[i].resolved =>
            decisions[i].outcome = <<>> /\ decisions[i].outcome_score = 0

\* A mining call has just returned on a store that holds a resolved decision
\* with a score and a decision still unresolved.
C2_Witness ==
    /\ last.op = "mine_agent"
    /\ \E i, j \in 1..Len(decisions) :
          /\ ~decisions[i].resolved
          /\ decisions[j].resolved /\ decisions[j].outcome_score # 0
          /\ decisions[j].outcome = T_Won


(***************************************************************************)
(* C10: after a mining pass that runs the strategies no active pattern has *)
(* evidence_count <= 1 and confidence < 0.5, and every pattern that was    *)
(* active before the prune step and does not satisfy both conditions is    *)
(* still active.                                                           *)
(***************************************************************************)
C10_PassEnds == last'.op = "mine_agent" /\ ~last'.ret.skipped

C10_PruneContract ==
    [][C10_PassEnds =>
         /\ Len(patterns') = Len(patterns)
         /\ \A i \in 1..Len(patterns') :
               ~(/\ patterns'[i].active
                 /\ patterns'[i].evidence_count <= 1
                 /\ patterns'[i].confidence < Pct(50))
         /\ \A i \in 1..Len(patterns) :
               (/\ patterns[i].active
                /\ ~(patterns[i].evidence_count <= 1
                     /\ patterns[i].confidence < Pct(50)))
               => patterns'[i].active /\ patterns'[i] = patterns[i]]_vars

\* A pass has ended that deactivated the pattern with evidence 1 and
\* confidence 0.3 and kept the one with evidence 1 and confidence 0.6.
C10_Witness ==
    /\ last.op = "mine_agent" /\ ~last.ret.skipped
    /\ last.ret.patterns_pruned = 1
    /\ \E i, j \in 1..Len(patterns) :
          /\ ~patterns[i].active /\ patterns[i].evidence_count = 1
          /\ patterns[i].confidence = Pct(30)
          /\ patterns[j].active /\ patterns[j].evidence_count = 1
          /\ patterns[j].confidence = Pct(60)

(***************************************************************************)
(* SpecTagMining: one mining pass over a store that holds resolved         *)
(* decisions tagged "breakout" and no pattern.                             *)
(***************************************************************************)
\* The numbers of resolved decisions the store is opened with.
TagTotals == {2, 3, 4, 5, 10, 20}
\* <<wins, losses>> of the decisions of the store.
TagMixes == UNION {{<<w, n - w>> : w \in 0..n} : n \in TagTotals}

\* A store after `wins` + `losses` record_decision calls with the tag
\* "breakout", each followed by its record_outcome.
TagStore(wins, losses) ==
    [i \in 1..(wins + losses) |->
        Resolve(NewDecision(i, IsoNow(PlainTime), T_ctx_breakout, T_buy, <<>>,
                            Pct(80), <<T_breakout>>),
                T_Won, IF i <= wins THEN Pct(50) ELSE Pct(0 - 50))]

TagInit ==
    /\ \E m \in TagMixes : decisions = TagStore(m[1], m[2])
    /\ patterns = <<>>
    /\ knowledge = <<>>
    /\ nextKid = 1
    /\ clock = PlainTime
    /\ last = [op |-> "open"]
    /\ miner = Idle
    /\ conns = NoCalls
    /\ bus = NoEvents
    /\ kill = NoSwitch

TagMineStart ==
    /\ patterns = <<>>
    /\ mine_start

TagNext == TagMineStart \/ mine_strategies \/ mine_prune

SpecTagMining == TagInit /\ [][TagNext]_vars

\* The decisions that carry the tag, and those of them won and lost.
TagCarriers(tag) ==
    {i \in 1..Len(decisions) :
        decisions[i].resolved /\ \E k \in 1..Len(decisions[i].tags) : decisions[i].tags[k] = tag}
TagWon(tag) == {i \in TagCarriers(tag) : decisions[i].outcome_score > 0}
TagLost(tag) == {i \in TagCarriers(tag) : decisions[i].outcome_score < 0}

\* The active tag_performance rows.
TagRows == {i \in 1..Len(patterns) :
               patterns[i].active /\ patterns[i].pattern_type = T_tag_performance}

(***************************************************************************)
(* C11: after one pass on a store with no prior patterns, a tag carried by *)
(* at least 3 resolved decisions with win-rate >= 0.55 or <= 0.45 has      *)
(* exactly one active tag_performance pattern, with evidence_count the     *)
(* occurrences of the tag and confidence max(win-rate, 1 - win-rate); a    *)
(* tag with fewer than 3 occurrences or a win-rate strictly between 0.45   *)
(* and 0.55 has none.                                                      *)
(***************************************************************************)
C11_TagPerformance ==
    last.op = "mine_agent" =>
        LET n == Cardinality(TagCarriers(T_breakout))
            w == Cardinality(TagWon(T_breakout))
            l == Cardinality(TagLost(T_breakout))
        IN /\ (n >= 3 /\ w + l > 0 /\ (w * 100 >= 55 * (w + l) \/ w * 100 <= 45 * (w + l)))
                 => /\ Cardinality(TagRows) = 1
                    /\ \A i \in TagRows :
                          /\ patterns[i].evidence_count = n
                          /\ patterns[i].confidence * (w + l) = Q * Max(w, l)
           /\ (n < 3 \/ (w * 100 > 45 * (w + l) /\ w * 100 < 55 * (w + l)))
                 => TagRows = {}

(***************************************************************************)
(* C12: mine_agent on an agent with fewer than 3 resolved decisions        *)
(* returns skipped = true with reason "insufficient_data" and leaves the   *)
(* store unchanged: no pattern is inserted, reinforced or deactivated and  *)
(* no decision or knowledge row changes.                                   *)
(***************************************************************************)
C12_Called == miner.pc = "idle" /\ last'.op \in {"mine_agent", "mine_start"}

C12_FewResolved ==
    Cardinality({i \in 1..Len(decisions) : decisions[i].resolved}) < 3

C12_SkipsUnchanged ==
    [][C12_Called /\ C12_FewResolved =>
         /\ last'.op = "mine_agent"
         /\ last'.ret.skipped /\ last'.ret.reason = "insufficient_data"
         /\ miner' = Idle
         /\ decisions' = decisions /\ patterns' = patterns
         /\ knowledge' = knowledge]_vars

\* A skipped run has returned on a store that holds two resolved decisions
\* and an active pattern with evidence 1 and confidence 0.3.
C12_Witness ==
    /\ last.op = "mine_agent" /\ last.ret.skipped
    /\ Cardinality({i \in 1..Len(decisions) : decisions[i].resolved}) = 2
    /\ \E i \in 1..Len(patterns) :
          /\ patterns[i].active /\ patterns[i].evidence_count = 1
          /\ patterns[i].confidence = Pct(30)

(***************************************************************************)
(* SpecRemine: mine_agent run again and again over the same resolved       *)
(* decisions, which carry one tag: "breakout" or a tag of 1000 characters. *)
(***************************************************************************)
T_long_tag == Rep("t", DESCRIPTION_MAX)
RemineTags == {T_breakout, T_long_tag}
\* <<wins, losses>> of the decisions of the store.
RemineMixes == {<<3, 0>>, <<2, 1>>, <<1, 2>>, <<0, 3>>, <<4, 0>>, <<3, 1>>, <<1, 4>>, <<5, 0>>}

\* A store after `wins` + `losses` record_decision calls with one tag, each
\* followed by its record_outcome.
RemineStore(tag, wins, losses) ==
    [i \in 1..(wins + losses) |->
        Resolve(NewDecision(i, IsoNow(PlainTime), T_ctx_breakout, T_buy, <<>>,
                            Pct(80), <<tag>>),
                T_Won, IF i <= wins THEN Pct(50) ELSE Pct(0 - 50))]

RemineInit ==
    /\ \E tag \in RemineTags, m \in RemineMixes :
          decisions = RemineStore(tag, m[1], m[2])
    /\ patterns = <<>>
    /\ knowledge = <<>>
    /\ nextKid = 1
    /\ clock = PlainTime
    /\ last = [op |-> "open"]
    /\ miner = Idle
    /\ conns = NoCalls
    /\ bus = NoEvents
    /\ kill = NoSwitch

RemineMineStart ==
    /\ \A i \in 1..Len(patterns) : patterns[i].evidence_count <= RemineEvidence
    /\ mine_start

RemineNext == RemineMineStart \/ mine_strategies \/ mine_prune

SpecRemine == RemineInit /\ [][RemineNext]_vars

\* The (pattern_type, description) pairs of the active rows.
ActivePairs(rows) ==
    {<<rows[i].pattern_type, rows[i].description>> :
        i \in {k \in 1..Len(rows) : rows[k].active}}

(***************************************************************************)
(* C13: re-running mine_agent on unchanged resolved decisions creates no   *)
(* new pattern row and leaves the set of active (type, description) pairs  *)
(* as it was; every pattern the re-run emits has its confidence set to     *)
(* min(0.99, old + 0.05) and the emitted evidence added to its             *)
(* evidence_count.                                                         *)
(***************************************************************************)
C13_Reemits == last'.op = "mine_strategies" /\ patterns # <<>>

C13_RerunReinforces ==
    [][/\ C13_Reemits =>
            /\ Len(patterns') = Len(patterns)
            /\ ActivePairs(patterns') = ActivePairs(patterns)
            /\ \A k \in 1..Len(last'.calls) :
                  \E i \in 1..Len(patterns) :
                      /\ patterns[i].active
                      /\ patterns[i].pattern_type = last'.calls[k].pattern_type
                      /\ patterns[i].description =
                            SubSeq(last'.calls[k].description, 1,
                                   Min(DESCRIPTION_MAX, Len(last'.calls[k].description)))
                      /\ patterns'[i].confidence =
                            Min(Pct(99), patterns[i].confidence + Pct(5))
                      /\ patterns'[i].evidence_count =
                            patterns[i].evidence_count + last'.calls[k].evidence_count
       /\ miner.pc = "prune" =>
            /\ Len(patterns') = Len(patterns)
            /\ ActivePairs(patterns') = ActivePairs(patterns)]_vars

(***************************************************************************)
(* SpecConcurrentMining: the agent records decisions and outcomes on its   *)
(* connection while one mine_agent run proceeds on another.                *)
(***************************************************************************)
CoScores == {Pct(50), Pct(0 - 50)}

CoInit ==
    /\ decisions = <<>>
    /\ patterns = <<>>
    /\ knowledge = <<>>
    /\ nextKid = 1
    /\ clock = PlainTime
    /\ last = [op |-> "open"]
    /\ miner = Idle
    /\ conns = NoCalls
    /\ bus = NoEvents
    /\ kill = NoSwitch

CoRecordDecision ==
    /\ Len(decisions) < CoDecisions
    /\ record_decision(T_ctx_breakout, T_buy, <<>>, Pct(80), <<T_breakout>>)

CoRecordOutcome ==
    \E id \in 1..CoDecisions, score \in CoScores : record_outcome(id, T_Won, score)

\* One run that writes patterns; runs that skip may come before it.
CoMineStart ==
    /\ patterns = <<>>
    /\ mine_start

CoNext ==
    \/ CoRecordDecision
    \/ CoRecordOutcome
    \/ CoMineStart
    \/ mine_strategies
    \/ mine_prune

SpecConcurrentMining == CoInit /\ [][CoNext]_vars

(***************************************************************************)
(* C14: a mining run never inserts, updates or deletes a decision: under   *)
(* every interleaving of the steps of a run with record_decision and       *)
(* record_outcome calls the decisions table is what the record calls alone *)
(* produce.                                                                *)
(***************************************************************************)
C14_MinerStep == last'.op \in {"mine_start", "mine_strategies", "mine_agent"}

C14_Recorded ==
    /\ Len(decisions') = Len(decisions) + 1
    /\ SubSeq(decisions', 1, Len(decisions)) = decisions
    /\ decisions'[Len(decisions')].id = last'.ret
    /\ ~decisions'[Len(decisions')].resolved

C14_Resolved ==
    /\ Len(decisions') = Len(decisions)
    /\ \A i \in 1..Len(decisions) :
          IF decisions[i].id = last'.id
          THEN /\ decisions'[i].resolved
               /\ decisions'[i].outcome_score = last'.score
               /\ decisions'[i].outcome = last'.outcome
               /\ [decisions'[i] EXCEPT !.resolved = decisions[i].resolved,
                                        !.outcome_score = decisions[i].outcome_score,
                                        !.outcome = decisions[i].outcome] = decisions[i]
          ELSE decisions'[i] = decisions[i]

C14_MinerLeavesDecisions ==
    [][/\ C14_MinerStep => decisions' = decisions
       /\ last'.op = "record_decision" => C14_Recorded
       /\ last'.op = "record_outcome" => C14_Resolved]_vars

\* A run has ended whose calibration pattern reports a 100% win rate while
\* every decision of the store is now a loss: record_outcome calls acted
\* after the run had read the decisions.
C14_Witness ==
    /\ last.op = "mine_agent" /\ ~last.ret.skipped
    /\ \A i \in 1..Len(decisions) : decisions[i].outcome_score < 0
    /\ \E i \in 1..Len(patterns) :
          patterns[i].pattern_type = T_calibration /\ patterns[i].confidence = Q

(***************************************************************************)
(* add_pattern and set_knowledge as the statements they execute: the       *)
(* lookup and the write are two statements, each committed on its own, and *)
(* another connection's statements may run between them.                   *)
(***************************************************************************)
\* existing = conn.execute("SELECT ...").fetchone(): <<row>>, or <<>> for None.
PatternLookup(rows, pattern_type, description) ==
    IF ExistingPattern(rows, pattern_type, description) = {} THEN {<<>>}
    ELSE {<<rows[i]>> : i \in ExistingPattern(rows, pattern_type, description)}

\* UPDATE patterns SET evidence_count = ?, confidence = ?, updated_at = ?
\* WHERE id = ?, with the values computed from the row the lookup read.
ReinforceById(rows, existing, evidence_count, now) ==
    LET r == Reinforce(existing, evidence_count, now)
    IN [i \in 1..Len(rows) |->
           IF rows[i].id = existing.id
           THEN [rows[i] EXCEPT !.evidence_count = r.evidence_count,
                                !.confidence = r.confidence,
                                !.updated_at = r.updated_at]
           ELSE rows[i]]

\* add_pattern up to and including the lookup.
add_pattern_lookup(c, pattern_type, description, evidence_count, confidence) ==
    /\ conns[c].pc = "idle"
    /\ \E existing \in PatternLookup(patterns, pattern_type, description) :
          conns' = [conns EXCEPT ![c] =
                       [pc |-> "add_pattern", now |-> IsoNow(clock),
                        pattern_type |-> pattern_type, description |-> description,
                        evidence_count |-> evidence_count,
                        confidence |-> confidence, existing |-> existing]]
    /\ last' = [op |-> "add_pattern_lookup", conn |-> c]
    /\ UNCHANGED <<decisions, patterns, knowledge, nextKid, clock, miner, bus, kill>>

\* add_pattern from the lookup's result on: the UPDATE or the INSERT.
add_pattern_write(c) ==
    /\ conns[c].pc = "add_pattern"
    /\ LET a == conns[c]
           pid == Len(patterns) + 1
       IN IF a.existing # <<>>
          THEN /\ patterns' = ReinforceById(patterns, a.existing[1],
                                            a.evidence_count, a.now)
               /\ last' = [op |-> "add_pattern", conn |-> c,
                           pattern_type |-> a.pattern_type,
                           description |-> a.description, ret |-> a.existing[1].id]
          ELSE /\ patterns' = Append(patterns,
                     NewPattern(pid, a.now, a.pattern_type, a.description,
                                a.evidence_count, a.confidence, <<>>))
               /\ last' = [op |-> "add_pattern", conn |-> c,
                           pattern_type |-> a.pattern_type,
                           description |-> a.description, ret |-> pid]
    /\ conns' = [conns EXCEPT ![c] = Idle]
    /\ UNCHANGED <<decisions, knowledge, nextKid, clock, miner, bus, kill>>

\* existing = conn.execute("SELECT id ...").fetchone(): <<id>>, or <<>>.
KnowledgeLookup(rows, category, key) ==
    IF ExistingKnowledge(rows, category, key) = {} THEN {<<>>}
    ELSE {<<rows[i].id>> : i \in ExistingKnowledge(rows, category, key)}

\* UPDATE knowledge SET ... WHERE id = ?
UpdateKnowledgeById(rows, kid, now, value, source, ttl_hours) ==
    [i \in 1..Len(rows) |->
        IF rows[i].id = kid
        THEN UpdateKnowledge(rows[i], now, value, source, ttl_hours)
        ELSE rows[i]]

\* set_knowledge up to and including the lookup.
set_knowledge_lookup(c, category, key, value, source, ttl_hours) ==
    /\ conns[c].pc = "idle"
    /\ \E existing \in KnowledgeLookup(knowledge, category, key) :
          conns' = [conns EXCEPT ![c] =
                       [pc |-> "set_knowledge", now |-> IsoNow(clock),
                        category |-> category, key |-> key, value |-> value,
                        source |-> source, ttl_hours |-> ttl_hours,
                        existing |-> existing]]
    /\ last' = [op |-> "set_knowledge_lookup", conn |-> c]
    /\ UNCHANGED <<decisions, patterns, knowledge, nextKid, clock, miner, bus, kill>>

\* set_knowledge from the lookup's result on: the UPDATE or the INSERT.
set_knowledge_write(c) ==
    /\ conns[c].pc = "set_knowledge"
    /\ LET a == conns[c]
       IN IF a.existing # <<>>
          THEN /\ knowledge' = UpdateKnowledgeById(knowledge, a.existing[1], a.now,
                                                   a.value, a.source, a.ttl_hours)
               /\ nextKid' = nextKid
               /\ last' = [op |-> "set_knowledge", conn |-> c,
                           category |-> a.category, key |-> a.key,
                           value |-> a.value, ret |-> a.existing[1]]
          ELSE /\ knowledge' = Append(knowledge,
                     NewKnowledge(nextKid, a.now, a.category, a.key, a.value,
                                  a.source, a.ttl_hours))
               /\ nextKid' = nextKid + 1
               /\ last' = [op |-> "set_knowledge", conn |-> c,
                           category |-> a.category, key |-> a.key,
                           value |-> a.value, ret |-> nextKid]
    /\ conns' = [conns EXCEPT ![c] = Idle]
    /\ UNCHANGED <<decisions, patterns, clock, miner, bus, kill>>

(***************************************************************************)
(* SpecConnections: two connections of one agent call add_pattern for the  *)
(* pair ("trend", "X") and set_knowledge for the pair ("risk", "btc_vol"). *)
(***************************************************************************)
ConnValues == {T_high, T_low}

ConnInit ==
    /\ decisions = <<>>
    /\ patterns = <<>>
    /\ knowledge = <<>>
    /\ nextKid = 1
    /\ clock = PlainTime
    /\ last = [op |-> "open"]
    /\ miner = Idle
    /\ conns = NoCalls
    /\ bus = NoEvents
    /\ kill = NoSwitch

ConnAddPatternLookup ==
    /\ Len(patterns) < ConnPatterns
    /\ \A i \in 1..Len(patterns) : patterns[i].evidence_count < ConnEvidence
    /\ \E c \in Conns : add_pattern_lookup(c, T_trend, T_X, 1, Pct(50))

ConnAddPatternWrite == \E c \in Conns : add_pattern_write(c)

ConnSetKnowledgeLookup ==
    /\ Len(knowledge) < ConnKnowledge
    /\ \E c \in Conns, value \in ConnValues :
          set_knowledge_lookup(c, T_risk, T_btc_vol, value, T_atlas, 0)

ConnSetKnowledgeWrite == \E c \in Conns : set_knowledge_write(c)

ConnNext ==
    \/ ConnAddPatternLookup
    \/ ConnAddPatternWrite
    \/ ConnSetKnowledgeLookup
    \/ ConnSetKnowledgeWrite

SpecConnections == ConnInit /\ [][ConnNext]_vars

\* No call is in flight.
Quiescent == \A c \in Conns : conns[c].pc = "idle"

(***************************************************************************)
(* C15: under any interleaving of two add_pattern calls from two           *)
(* connections with the same (pattern_type, description) the store ends    *)
(* with exactly one active row for the pair.                               *)
(***************************************************************************)
C15_OneActiveRow ==
    (Quiescent /\ patterns # <<>>) =>
        Cardinality(ExistingPattern(patterns, T_trend, T_X)) = 1

(***************************************************************************)
(* C16: under any interleaving of set_knowledge calls from separate        *)
(* connections for the same (category, key) the store ends with exactly    *)
(* one row for the pair, holding the value of the call that committed      *)
(* last.                                                                   *)
(***************************************************************************)
C16_LastCommittedWins ==
    (Quiescent /\ last.op = "set_knowledge") =>
        /\ Cardinality(ExistingKnowledge(knowledge, last.category, last.key)) = 1
        /\ \A i \in ExistingKnowledge(knowledge, last.category, last.key) :
              knowledge[i].value = last.value

(***************************************************************************)
(* C17: once a decision is resolved it stays resolved under every later    *)
(* operation; record_outcome called again on the same id returns true and  *)
(* the decision's outcome and outcome_score are those of the most recent   *)
(* call.                                                                   *)
(***************************************************************************)
C17_StaysResolved ==
    \A i \in 1..Len(decisions) :
        decisions[i].resolved =>
            /\ Len(decisions') >= i
            /\ decisions'[i].id = decisions[i].id
            /\ decisions'[i].resolved

\* The call resolves again a decision that was resolved before it.
C17_Again == last'.op = "record_outcome" /\ last'.again

\* As stated: the stored outcome and score are the call's arguments.
C17_AsStated ==
    [][/\ C17_StaysResolved
       /\ C17_Again =>
            /\ last'.ret
            /\ \A i \in DecisionsWithId(decisions', last'.id) :
                  /\ decisions'[i].outcome = last'.outcome
                  /\ decisions'[i].outcome_score = last'.score]_vars

\* The stored outcome is the first 2000 characters of the call's outcome
\* and the stored score is the call's score clamped into [-1, 1].
C17_LatestOutcomeWins ==
    [][/\ C17_StaysResolved
       /\ C17_Again =>
            /\ last'.ret
            /\ \A i \in DecisionsWithId(decisions', last'.id) :
                  /\ decisions'[i].outcome =
                        SubSeq(last'.outcome, 1,
                               IF Len(last'.outcome) > 2000 THEN 2000
                               ELSE Len(last'.outcome))
                  /\ decisions'[i].outcome_score =
                        (IF last'.score > Q THEN Q
                         ELSE IF last'.score < 0 - Q THEN 0 - Q
                         ELSE last'.score)]_vars

\* A decision resolved before has been resolved again, with score 0.85.
C17_Witness ==
    /\ last.op = "record_outcome" /\ last.again /\ last.ret
    /\ last.score = Pct(85)
    /\ \E i \in DecisionsWithId(decisions, last.id) :
          decisions[i].resolved /\ decisions[i].outcome_score = Pct(85)

\* get_recent_decisions(limit, resolved_only): a read.
get_recent_decisions(limit, resolved_only) ==
    /\ \E res \in GetRecentDecisions(decisions, limit, resolved_only) :
          last' = [op |-> "get_recent_decisions", limit |-> limit,
                   resolved_only |-> resolved_only, ret |-> res]
    /\ UNCHANGED <<decisions, patterns, knowledge, nextKid, clock, miner, conns, bus, kill>>

(***************************************************************************)
(* SpecRecent: decisions are recorded and resolved while time passes, and  *)
(* get_recent_decisions is asked for the newest of them.                   *)
(***************************************************************************)
RecentLimits == {1, 2}

RecentInit ==
    /\ decisions = <<>>
    /\ patterns = <<>>
    /\ knowledge = <<>>
    /\ nextKid = 1
    /\ clock \in RelStarts
    /\ last = [op |-> "open"]
    /\ miner = Idle
    /\ conns = NoCalls
    /\ bus = NoEvents
    /\ kill = NoSwitch

RecentRecordDecision ==
    /\ Len(decisions) < MaxDecisions
    /\ record_decision(T_ctx_btc, T_high, <<>>, Pct(50), <<>>)

RecentRecordOutcome ==
    \E i \in 1..Len(decisions) :
        /\ ~decisions[i].resolved
        /\ record_outcome(decisions[i].id, T_Won, Pct(85))

RecentGetRecentDecisions ==
    \E limit \in RecentLimits, resolved_only \in BOOLEAN :
        get_recent_decisions(limit, resolved_only)

RecentTick ==
    /\ \E start \in RelStarts : start <= clock /\ clock < start + MaxTicks
    /\ Tick

RecentNext ==
    \/ RecentRecordDecision
    \/ RecentRecordOutcome
    \/ RecentGetRecentDecisions
    \/ RecentTick

SpecRecent == RecentInit /\ [][RecentNext]_vars

(***************************************************************************)
(* C18: immediately after record_decision returns id d, with no other      *)
(* write in between, get_recent_decisions(limit=1) returns exactly one     *)
(* decision, the one with id d, unresolved, with outcome "" and            *)
(* outcome_score 0.0, whatever the store already held and whenever those   *)
(* decisions were recorded.                                                *)
(***************************************************************************)
C18_RecentIsNewest ==
    [][(/\ last.op = "record_decision"
        /\ last'.op = "get_recent_decisions"
        /\ last'.limit = 1
        /\ ~last'.resolved_only)
       => /\ Len(last'.ret) = 1
          /\ last'.ret[1].id = last.ret
          /\ ~last'.ret[1].resolved
          /\ last'.ret[1].outcome = <<>>
          /\ last'.ret[1].outcome_score = 0]_vars

(***************************************************************************)
(* SpecActive: patterns of two types are added, reinforced and             *)
(* deactivated, and get_active_patterns is asked about them.               *)
(***************************************************************************)
\* <<pattern_type, description, evidence_count, confidence>>
ActiveCalls ==
    {<<T_trend, T_X, 1, Pct(50)>>, <<T_trend, T_Y, 1, Pct(55)>>,
     <<T_risk, T_X, 1, Pct(50)>>}
\* No type, the empty text, and a type in use.
ActiveFilters == {None, <<>>, T_trend}
ActiveMinimums == {0, Pct(55)}

ActiveInit ==
    /\ decisions = <<>>
    /\ patterns = <<>>
    /\ knowledge = <<>>
    /\ nextKid = 1
    /\ clock = PlainTime
    /\ last = [op |-> "open"]
    /\ miner = Idle
    /\ conns = NoCalls
    /\ bus = NoEvents
    /\ kill = NoSwitch

\* The evidence of all rows together.
ActiveTotal == SumSeq([i \in 1..Len(patterns) |-> patterns[i].evidence_count])

ActiveAddPattern ==
    /\ ActiveTotal < ActiveEvidenceMax
    /\ \E a \in ActiveCalls : add_pattern(a[1], a[2], a[3], a[4], <<>>)

ActiveDeactivatePattern ==
    /\ \A j \in 1..Len(patterns) : patterns[j].active
    /\ \E i \in 1..Len(patterns) : deactivate_pattern(patterns[i].id)

ActiveGetActivePatterns ==
    \E pattern_type \in ActiveFilters, min_confidence \in ActiveMinimums :
        get_active_patterns(pattern_type, min_confidence)

ActiveNext ==
    \/ ActiveAddPattern
    \/ ActiveDeactivatePattern
    \/ ActiveGetActivePatterns

SpecActive == ActiveInit /\ [][ActiveNext]_vars

(***************************************************************************)
(* C19: get_active_patterns(pattern_type, min_confidence) returns exactly  *)
(* the patterns that are active, have confidence >= min_confidence and,    *)
(* when a type is given, have that pattern_type, ordered by confidence     *)
(* descending and, among equal confidence, by evidence_count descending;   *)
(* a deactivated pattern is never returned.                                *)
(***************************************************************************)
\* The positions of the rows the call `a` is to return when `typed` says
\* whether its pattern_type counts as given.
C19_Wanted(a, typed) ==
    {i \in 1..Len(patterns) :
        /\ patterns[i].active
        /\ patterns[i].confidence >= a.min_confidence
        /\ (typed => patterns[i].pattern_type = a.pattern_type)}

C19_Returns(a, typed) ==
    /\ Len(a.ret) = Cardinality(C19_Wanted(a, typed))
    /\ \A i \in C19_Wanted(a, typed) : \E k \in 1..Len(a.ret) : a.ret[k] = patterns[i]
    /\ \A k \in 1..Len(a.ret) : a.ret[k].active
    /\ \A k, l \in 1..Len(a.ret) :
          k < l =>
            \/ a.ret[k].confidence > a.ret[l].confidence
            \/ /\ a.ret[k].confidence = a.ret[l].confidence
               /\ a.ret[k].evidence_count >= a.ret[l].evidence_count

\* As stated: every pattern_type other than None is a type given.
C19_AsStated ==
    last.op = "get_active_patterns" => C19_Returns(last, last.pattern_type # None)

\* A type is given when pattern_type is a non-empty text; None and the empty
\* text both ask for every type.
C19_ActiveContract ==
    last.op = "get_active_patterns" =>
        C19_Returns(last, last.pattern_type # None /\ Len(last.pattern_type) > 0)

\* get_active_patterns("trend", 0.55) returned two rows of equal confidence,
\* the more-evidenced first, while the store also held a deactivated row.
C19_Witness ==
    /\ last.op = "get_active_patterns"
    /\ last.pattern_type = T_trend /\ last.min_confidence = Pct(55)
    /\ Len(last.ret) = 2
    /\ last.ret[1].confidence = last.ret[2].confidence
    /\ last.ret[1].evidence_count > last.ret[2].evidence_count
    /\ \E i \in 1..Len(patterns) : ~patterns[i].active

(***************************************************************************)
(* C20: deactivate_pattern(id) returns true exactly when a pattern row     *)
(* with that id exists, after which that row has active=false with all its *)
(* other fields and all other rows unchanged; for an unknown id it returns *)
(* false, raises nothing and changes nothing.                              *)
(***************************************************************************)
C20_Known(a) == \E i \in 1..Len(patterns) : patterns[i].id = a.id

C20_DeactivateContract ==
    [][last'.op = "deactivate_pattern" =>
          /\ last'.ret = C20_Known(last')
          /\ Len(patterns') = Len(patterns)
          /\ \A i \in 1..Len(patterns) :
                IF patterns[i].id = last'.id
                THEN /\ ~patterns'[i].active
                     /\ [patterns'[i] EXCEPT !.active = patterns[i].active] = patterns[i]
                ELSE patterns'[i] = patterns[i]
          /\ ~C20_Known(last') => patterns' = patterns
          /\ decisions' = decisions
          /\ knowledge' = knowledge]_vars

\* A deactivate_pattern call found its row and turned it off while the
\* other row of the store stayed active.
C20_Witness ==
    /\ last.op = "deactivate_pattern" /\ last.ret
    /\ Len(patterns) = 2
    /\ \E i, j \in 1..Len(patterns) :
          /\ patterns[i].id = last.id /\ ~patterns[i].active
          /\ patterns[j].id # last.id /\ patterns[j].active

\* get_stats(): the counts the dashboard reads.
get_stats ==
    /\ last' = [op |-> "get_stats", ret |-> GetStats(decisions, patterns, knowledge)]
    /\ UNCHANGED <<decisions, patterns, knowledge, nextKid, clock, miner, conns, bus, kill>>

(***************************************************************************)
(* SpecStore: one client uses every operation of the store and runs the    *)
(* miner on it.  The store is opened holding a fact whose time to live has *)
(* run out.                                                                *)
(***************************************************************************)
StoreScores == {Pct(85), 0}
StaleKnowledge == NewKnowledge(1, IsoNow(PlainTime - 4), T_risk, T_btc_vol, T_high, T_atlas, 1)

StoreInit ==
    /\ decisions = <<>>
    /\ patterns = <<>>
    /\ knowledge = <<StaleKnowledge>>
    /\ nextKid = 2
    /\ clock = PlainTime
    /\ last = [op |-> "open"]
    /\ miner = Idle
    /\ conns = NoCalls
    /\ bus = NoEvents
    /\ kill = NoSwitch

StoreRecordDecision ==
    /\ miner.pc = "idle"
    /\ Unmined
    /\ Len(decisions) < StoreDecisions
    /\ record_decision(T_ctx_breakout, T_buy, <<>>, Pct(80), <<T_breakout>>)

StoreRecordOutcome ==
    /\ miner.pc = "idle"
    /\ Unmined
    /\ \E i \in 1..Len(decisions), score \in StoreScores :
          /\ ~decisions[i].resolved
          /\ record_outcome(decisions[i].id, T_Won, score)

StoreAddPattern ==
    /\ miner.pc = "idle"
    /\ patterns = <<>>
    /\ add_pattern(T_trend, T_X, 1, Pct(30), <<>>)

StoreDeactivatePattern ==
    /\ miner.pc = "idle"
    /\ \E id \in 1..(Len(patterns) + 1) : deactivate_pattern(id)

StoreSetKnowledge ==
    /\ miner.pc = "idle"
    /\ Len(knowledge) < MaxKnowledge
    /\ set_knowledge(T_risk, T_btc_vol, T_low, T_atlas, 0)

StoreGetKnowledge ==
    /\ miner.pc = "idle"
    /\ get_knowledge(T_risk, T_btc_vol)

StoreGetStats ==
    /\ miner.pc = "idle"
    /\ get_stats

StoreMineStart ==
    /\ Unmined
    /\ mine_start

StoreNext ==
    \/ StoreRecordDecision
    \/ StoreRecordOutcome
    \/ StoreAddPattern
    \/ StoreDeactivatePattern
    \/ StoreSetKnowledge
    \/ StoreGetKnowledge
    \/ StoreGetStats
    \/ StoreMineStart
    \/ mine_strategies
    \/ mine_prune

SpecStore == StoreInit /\ [][StoreNext]_vars

(***************************************************************************)
(* C21: no operation of the subsystem (record_decision, record_outcome,    *)
(* add_pattern, deactivate_pattern, set_knowledge, get_knowledge,          *)
(* get_stats, mine_agent) ever removes a decision row or a pattern row:    *)
(* across every step the set of decision ids and the set of pattern ids    *)
(* only grow, and a deactivated pattern row is still stored.               *)
(***************************************************************************)
C21_Ids(rows) == {rows[i].id : i \in 1..Len(rows)}

C21_NothingRemoved ==
    [][/\ C21_Ids(decisions) \subseteq C21_Ids(decisions')
       /\ C21_Ids(patterns) \subseteq C21_Ids(patterns')
       /\ Len(decisions') >= Len(decisions)
       /\ Len(patterns') >= Len(patterns)
       /\ \A i \in 1..Len(patterns) :
             ~patterns[i].active =>
                \E j \in 1..Len(patterns') : patterns'[j] = patterns[i]]_vars

\* A mining run has pruned the hand-written pattern, the expired fact has
\* been purged, and the pruned row and all three decisions are still stored.
C21_Witness ==
    /\ last.op = "mine_agent" /\ ~last.ret.skipped
    /\ last.ret.patterns_pruned = 1
    /\ knowledge = <<>>
    /\ Len(decisions) = 3
    /\ \E i \in 1..Len(patterns) :
          ~patterns[i].active /\ patterns[i].description = T_X

(***************************************************************************)
(* C27: get_stats is read-only and derived purely from the tables: after   *)
(* any sequence of operations it reports total_decisions = number of       *)
(* decision rows, resolved_decisions = number with resolved=true,          *)
(* unresolved_decisions = total - resolved, active_patterns = number of    *)
(* active pattern rows, and win_count + loss_count <= resolved_decisions   *)
(* <= total_decisions; calling it changes no row.                          *)
(***************************************************************************)
C27_Resolved == {i \in 1..Len(decisions) : decisions[i].resolved}

C27_Active == {i \in 1..Len(patterns) : patterns[i].active}

C27_StatsDerived ==
    [][last'.op = "get_stats" =>
          /\ decisions' = decisions
          /\ patterns' = patterns
          /\ knowledge' = knowledge
          /\ last'.ret.total_decisions = Len(decisions)
          /\ last'.ret.resolved_decisions = Cardinality(C27_Resolved)
          /\ last'.ret.unresolved_decisions =
                Len(decisions) - Cardinality(C27_Resolved)
          /\ last'.ret.active_patterns = Cardinality(C27_Active)
          /\ last'.ret.win_count + last'.ret.loss_count
                <= last'.ret.resolved_decisions
          /\ last'.ret.resolved_decisions <= last'.ret.total_decisions]_vars

\* get_stats on a store of three decisions, one won, one resolved with
\* score 0 and one open, and of one pattern that has been deactivated.
C27_Witness ==
    /\ last.op = "get_stats"
    /\ last.ret.total_decisions = 3
    /\ last.ret.resolved_decisions = 2
    /\ last.ret.unresolved_decisions = 1
    /\ last.ret.win_count = 1 /\ last.ret.loss_count = 0
    /\ last.ret.active_patterns = 0
    /\ Len(patterns) = 1

\* The results search_decisions may return: context LIKE ? OR decision
\* LIKE ?, with pattern = f"%{query}%".
SearchDecisions(rows, query, limit) ==
    LET pattern == <<"%">> \o query \o <<"%">>
        Match(r) == Like(pattern, r.context) \/ Like(pattern, r.decision)
        matched == SelectSeq(rows, Match)
    IN {Limit(res, limit) : res \in OrderedBy(matched, DecisionOrder(matched))}

search_decisions(query, limit) ==
    /\ \E res \in SearchDecisions(decisions, query, limit) :
          last' = [op |-> "search_decisions", query |-> query,
                   limit |-> limit, ret |-> res]
    /\ UNCHANGED <<decisions, patterns, knowledge, nextKid, clock, miner, conns, bus, kill>>

(***************************************************************************)
(* SpecSearch: decisions are recorded on an ordinary day and               *)
(* search_decisions is asked about them.                                   *)
(***************************************************************************)
\* "BTC", "btc", "high", "xyz"
T_q_BTC == <<"B", "T", "C">>
T_q_btc == <<"b", "t", "c">>
T_q_xyz == <<"x", "y", "z">>
SearchQueries == {T_q_BTC, T_q_btc, T_high, T_q_xyz}
SearchLimits == {1, 5}
\* <<context, decision>>
SearchTexts == {<<T_ctx_btc, T_high>>, <<T_ctx_eth, T_low>>}

SearchInit ==
    /\ decisions = <<>>
    /\ patterns = <<>>
    /\ knowledge = <<>>
    /\ nextKid = 1
    /\ clock = PlainTime
    /\ last = [op |-> "open"]
    /\ miner = Idle
    /\ conns = NoCalls
    /\ bus = NoEvents
    /\ kill = NoSwitch

SearchRecordDecision ==
    /\ Len(decisions) < SearchDecisionsMax
    /\ \E t \in SearchTexts : record_decision(t[1], t[2], <<>>, Pct(50), <<>>)

SearchSearchDecisions ==
    \E query \in SearchQueries, limit \in SearchLimits :
        search_decisions(query, limit)

SearchTick ==
    /\ clock < PlainTime + MaxTicks
    /\ Tick

SearchNext == SearchRecordDecision \/ SearchSearchDecisions \/ SearchTick

SpecSearch == SearchInit /\ [][SearchNext]_vars

\* The decisions whose context or decision text contains the query as it is
\* written, newest first, at most `limit` of them.
C22_Expected(query, limit) ==
    LET Hit(r) == Contains(r.context, query) \/ Contains(r.decision, query)
        hits == NewestFirst(SelectSeq(decisions, Hit))
    IN SubSeq(hits, 1, IF Len(hits) < limit THEN Len(hits) ELSE limit)

(***************************************************************************)
(* C22 (as stated): search_decisions(query, limit) returns, newest first   *)
(* and at most limit, exactly the decisions whose context or decision text *)
(* contains query as a case-sensitive substring; a decision that contains  *)
(* the query only in a different letter case is not returned.              *)
(***************************************************************************)
C22_CaseSensitiveSearch ==
    last.op = "search_decisions" =>
        last.ret = C22_Expected(last.query, last.limit)

(***************************************************************************)
(* SpecBounds: every write is tried with short texts and with texts one    *)
(* character longer than the documented bound of the field.                *)
(***************************************************************************)
\* Texts of 2001, 101, 1001, 5001, 201 and 101 characters.
T_over_text == Rep("x", 2001)
T_over_type == Rep("t", 101)
T_over_description == Rep("d", 1001)
T_over_value == Rep("v", 5001)
T_over_category == Rep("c", 201)
T_over_source == Rep("s", 101)

BoundsInit ==
    /\ decisions = <<>>
    /\ patterns = <<>>
    /\ knowledge = <<>>
    /\ nextKid = 1
    /\ clock = PlainTime
    /\ last = [op |-> "open"]
    /\ miner = Idle
    /\ conns = NoCalls
    /\ bus = NoEvents
    /\ kill = NoSwitch

\* Each call is made with short texts or with over-long texts throughout.
BoundsRecordDecision ==
    /\ Len(decisions) < MaxDecisions
    /\ \/ record_decision(T_ctx_btc, T_high, <<>>, Pct(50), <<>>)
       \/ record_decision(T_over_text, T_over_text, T_over_text, Pct(50), <<>>)

BoundsAddPattern ==
    /\ Len(patterns) < MaxPatterns
    /\ \A i \in 1..Len(patterns) : patterns[i].evidence_count < MaxEvidence
    /\ \/ add_pattern(T_trend, T_X, 1, Pct(50), <<>>)
       \/ add_pattern(T_over_type, T_over_description, 1, Pct(50), <<>>)

BoundsSetKnowledge ==
    /\ Len(knowledge) < MaxKnowledge
    /\ \/ set_knowledge(T_risk, T_btc_vol, T_high, T_atlas, 0)
       \/ set_knowledge(T_over_category, T_btc_vol, T_over_value, T_over_source, 0)

BoundsNext == BoundsRecordDecision \/ BoundsAddPattern \/ BoundsSetKnowledge

SpecBounds == BoundsInit /\ [][BoundsNext]_vars

(***************************************************************************)
(* C23 (as stated): every text field is truncated, not rejected, to its    *)
(* bound on every write path (insert and update): decision context,        *)
(* decision and reasoning to 2000 characters, pattern_type to 100, pattern *)
(* description to 1000, knowledge value to 5000, knowledge category to 200 *)
(* and knowledge source to 100; no stored field is ever longer than its    *)
(* bound.                                                                  *)
(***************************************************************************)
C23_WithinBounds ==
    /\ \A i \in 1..Len(decisions) :
          /\ Len(decisions[i].context) <= 2000
          /\ Len(decisions[i].decision) <= 2000
          /\ Len(decisions[i].reasoning) <= 2000
    /\ \A i \in 1..Len(patterns) :
          /\ Len(patterns[i].pattern_type) <= 100
          /\ Len(patterns[i].description) <= 1000
    /\ \A i \in 1..Len(knowledge) :
          /\ Len(knowledge[i].value) <= 5000
          /\ Len(knowledge[i].category) <= 200
          /\ Len(knowledge[i].source) <= 100

(***************************************************************************)
(* Context assembler (agent_brain.py, AgentBrain._build_memory_context).   *)
(***************************************************************************)
\* min_confidence=0.4, in hundredths.
CONTEXT_MIN_CONFIDENCE == 40
CONTEXT_PREVIEW == 150
OUTCOME_PREVIEW == 100

\* int(p["confidence"] * 100).  The product is formed in binary floating
\* point: of the confidences k/100 it comes out just below k for k = 29,
\* 57 and 58, which int() then cuts to k - 1.
ConfPct(c) ==
    LET k == (c * 100) \div Q
    IN IF (c * 100) % Q = 0 /\ k \in {29, 57, 58} THEN k - 1 ELSE k

\* A faulty cut: patterns = patterns (the slice is missing).
TopPatternsUncut(all_patterns, max_context_patterns) == all_patterns

\* patterns = patterns[:self.max_context_patterns]
TopPatterns(all_patterns, max_context_patterns) ==
    Slice(all_patterns, max_context_patterns)

\* The line written for one pattern.
PatternPart(p) ==
    [kind |-> "pattern", conf_pct |-> ConfPct(p.confidence),
     evidence_count |-> p.evidence_count, description |-> p.description]

\* The lines written for one decision.
DecisionPart(d) ==
    [kind |-> "decision",
     context |-> Slice(d.context, CONTEXT_PREVIEW),
     decision |-> Slice(d.decision, CONTEXT_PREVIEW),
     confidence |-> Percent(d.confidence),
     outcome |-> IF d.resolved
                 THEN <<IF d.outcome_score > 0 THEN "WIN"
                        ELSE IF d.outcome_score < 0 THEN "LOSS" ELSE "NEUTRAL",
                        Slice(d.outcome, OUTCOME_PREVIEW)>>
                 ELSE <<>>]

\* parts: the block is these parts joined by line feeds; no part is the
\* empty string, so the block is "" exactly when there is no part.
ContextParts(pats, decs) ==
    (IF pats = <<>> THEN <<>>
     ELSE <<[kind |-> "LEARNED PATTERNS:"]>> \o [i \in 1..Len(pats) |-> PatternPart(pats[i])])
    \o
    (IF decs = <<>> THEN <<>>
     ELSE <<[kind |-> "SIMILAR PAST DECISIONS:"]>> \o [i \in 1..Len(decs) |-> DecisionPart(decs[i])])

\* The outcomes of _build_memory_context: what it returns, or that the
\* error of get_relevant_context went through it.
BuildMemoryContext(pats, decs, situation, max_context_patterns, max_context_decisions) ==
    {IF g.raised
     THEN [raised |-> TRUE, block |-> <<>>, patterns_used |-> 0, decisions_found |-> 0]
     ELSE [raised |-> FALSE,
           block |-> ContextParts(TopPatterns(a, max_context_patterns), g.ret),
           patterns_used |-> Len(TopPatterns(a, max_context_patterns)),
           decisions_found |-> Len(g.ret)] :
        a \in GetActivePatterns(pats, None, Pct(CONTEXT_MIN_CONFIDENCE)),
        g \in GetRelevantContext(decs, situation, max_context_decisions)}

build_memory_context(situation, max_context_patterns, max_context_decisions) ==
    /\ \E r \in BuildMemoryContext(patterns, decisions, situation,
                                   max_context_patterns, max_context_decisions) :
          last' = [op |-> "build_memory_context", situation |-> situation,
                   max_context_patterns |-> max_context_patterns,
                   max_context_decisions |-> max_context_decisions,
                   raised |-> r.raised, block |-> r.block,
                   patterns_used |-> r.patterns_used,
                   decisions_found |-> r.decisions_found]
    /\ UNCHANGED <<decisions, patterns, knowledge, nextKid, clock, miner, conns, bus, kill>>

(***************************************************************************)
(* SpecContext: an agent records decisions and patterns and builds its     *)
(* memory context for several situations.                                  *)
(***************************************************************************)
\* <<description, evidence_count, confidence>>
ContextCalls == {<<T_X, 2, Pct(55)>>, <<T_Y, 1, Pct(55)>>, <<T_low, 1, Pct(30)>>}
\* "", "a b" (no token), "BTC high" (two tokens), eleven tokens.
ContextSituations == {<<>>, T_sit_short, T_sit_btc, T_sit_eleven}
ContextCaps == {<<0, 1>>, <<1, 1>>, <<8, 5>>}

ContextInit ==
    /\ decisions = <<>>
    /\ patterns = <<>>
    /\ knowledge = <<>>
    /\ nextKid = 1
    /\ clock = PlainTime
    /\ last = [op |-> "open"]
    /\ miner = Idle
    /\ conns = NoCalls
    /\ bus = NoEvents
    /\ kill = NoSwitch

ContextRecordDecision ==
    /\ Len(decisions) < ContextDecisions
    /\ \E context \in RelContexts : record_decision(context, T_high, <<>>, Pct(50), <<>>)

\* Each pattern is learnt once.
ContextAddPattern ==
    \E a \in ContextCalls :
        /\ \A i \in 1..Len(patterns) : patterns[i].description # a[1]
        /\ add_pattern(T_trend, a[1], a[2], a[3], <<>>)

ContextDeactivatePattern ==
    /\ \A j \in 1..Len(patterns) : patterns[j].active
    /\ \E i \in 1..Len(patterns) : deactivate_pattern(patterns[i].id)

ContextBuild ==
    \E situation \in ContextSituations, caps \in ContextCaps :
        build_memory_context(situation, caps[1], caps[2])

ContextNext ==
    \/ ContextRecordDecision
    \/ ContextAddPattern
    \/ ContextDeactivatePattern
    \/ ContextBuild

SpecContext == ContextInit /\ [][ContextNext]_vars

(***************************************************************************)
(* C24: the context assembler uses only active patterns with confidence    *)
(* >= 0.4, takes the first max_context_patterns of them in get_active      *)
(* order (highest confidence first, then most evidence), and at most       *)
(* max_context_decisions relevant decisions; the two counts it returns     *)
(* equal the number of patterns and of decisions rendered into the block,  *)
(* so patterns_used <= max_context_patterns and decisions_found <=         *)
(* max_context_decisions.                                                  *)
(***************************************************************************)
\* The positions of the stored patterns the assembler may use.
C24_Usable == {i \in 1..Len(patterns) : patterns[i].active /\ patterns[i].confidence >= Pct(40)}

\* The parts of the block of the given kind, in order.
C24_Parts(a, kind) == LET Is(part) == part.kind = kind IN SelectSeq(a.block, Is)

\* The stored pattern the k-th pattern line was written for.
C24_Row(a, k) ==
    CHOOSE i \in 1..Len(patterns) :
        patterns[i].description = C24_Parts(a, "pattern")[k].description /\ patterns[i].active

C24_ContextContract ==
    (last.op = "build_memory_context" /\ ~last.raised) =>
        LET lines == C24_Parts(last, "pattern")
            shown == {C24_Row(last, k) : k \in 1..Len(lines)}
        IN /\ last.patterns_used = Len(lines)
           /\ last.decisions_found = Len(C24_Parts(last, "decision"))
           /\ last.patterns_used <= last.max_context_patterns
           /\ last.decisions_found <= last.max_context_decisions
           /\ Len(lines) = IF Cardinality(C24_Usable) < last.max_context_patterns
                           THEN Cardinality(C24_Usable)
                           ELSE last.max_context_patterns
           /\ \A k \in 1..Len(lines) :
                 \E i \in C24_Usable :
                    /\ patterns[i].description = lines[k].description
                    /\ patterns[i].evidence_count = lines[k].evidence_count
           /\ Cardinality(shown) = Len(lines)
           /\ \A k, l \in 1..Len(lines) :
                 k < l =>
                   LET p == patterns[C24_Row(last, k)]
                       q == patterns[C24_Row(last, l)]
                   IN \/ p.confidence > q.confidence
                      \/ p.confidence = q.confidence /\ p.evidence_count >= q.evidence_count
           /\ \A i \in C24_Usable \ shown, j \in shown :
                 \/ patterns[j].confidence > patterns[i].confidence
                 \/ /\ patterns[j].confidence = patterns[i].confidence
                    /\ patterns[j].evidence_count >= patterns[i].evidence_count
           /\ \A part \in {last.block[n] : n \in 1..Len(last.block)} :
                 part.kind = "decision" =>
                    \E i \in 1..Len(decisions) :
                       /\ part.context = SubSeq(decisions[i].context, 1, Len(part.context))
                       /\ \E t \in {Words(last.situation)[n] : n \in 1..Len(Words(last.situation))} :
                             Contains(LowerPy(decisions[i].context), t)

\* With caps of one pattern and one decision, the assembler showed the
\* more-evidenced of two patterns of confidence 0.55 and one of two
\* matching decisions, while the store also held a pattern of confidence
\* 0.3.
C24_Witness ==
    /\ last.op = "build_memory_context" /\ ~last.raised
    /\ last.max_context_patterns = 1 /\ last.max_context_decisions = 1
    /\ last.patterns_used = 1 /\ last.decisions_found = 1
    /\ Cardinality(C24_Usable) = 2
    /\ \E i \in 1..Len(patterns) : patterns[i].confidence = Pct(30)
    /\ C24_Parts(last, "pattern")[1].evidence_count = 2
    /\ Cardinality({i \in 1..Len(decisions) : decisions[i].context = T_ctx_btc}) = 2

(***************************************************************************)
(* C25 (as stated): when the store holds no patterns and no decisions, the *)
(* context assembler returns an empty block with both counts 0 and raises  *)
(* no error, for any situation text (empty, with no token of length >= 3,  *)
(* or with any number of tokens).                                          *)
(***************************************************************************)
C25_EmptyStoreEmptyBlock ==
    (last.op = "build_memory_context" /\ patterns = <<>> /\ decisions = <<>>) =>
        /\ ~last.raised
        /\ last.block = <<>>
        /\ last.patterns_used = 0
        /\ last.decisions_found = 0

(***************************************************************************)
(* Batch mining (pattern_miner.py, mine_all).  The store of the model is   *)
(* the one of agent "hawk"; the memory directory may hold further stores,  *)
(* "atlas" and "zeta", that hold no decision.  Opening or querying any     *)
(* store may fail (a file that is no database, a database locked by        *)
(* another writer for longer than busy_timeout).                           *)
(***************************************************************************)
\* The agent names the directory may hold, in sorted() order.
AgentNames == <<"atlas", "hawk", "zeta">>
OwnAgent == "hawk"
\* str(e) of the errors sqlite3 raises.
MineErrors == {"file is not a database", "database is locked"}

\* sorted(p.stem for p in MEMORY_DIR.glob("*.db"))
GetAllAgents(found) == LET Found(a) == a \in found IN SelectSeq(AgentNames, Found)

\* mine_agent run in one piece: the patterns table it leaves and the dict
\* it returns, without its "agent" entry.
MineAgent(decs, pats, know, now) ==
    LET stats == GetStats(decs, pats, know)
    IN IF stats.resolved_decisions < MIN_EVIDENCE
       THEN {[rows |-> pats,
              ret |-> [skipped |-> TRUE, reason |-> "insufficient_data",
                       resolved |-> stats.resolved_decisions]]}
       ELSE UNION UNION UNION
            {{{{LET pruned == Cardinality({i \in 1..Len(all_patterns) :
                                              Weak(all_patterns[i])})
                IN [rows |-> PruneWeak(applied, all_patterns),
                    ret |-> [skipped |-> FALSE,
                             resolved_decisions |-> stats.resolved_decisions,
                             patterns_extracted |-> Len(calls),
                             patterns_pruned |-> pruned,
                             total_active_patterns |->
                                 stats.active_patterns + Len(calls) - pruned,
                             new_patterns |->
                                 [k \in 1..Len(calls) |-> calls[k].description]]] :
                  all_patterns \in GetActivePatterns(applied, None, 0)} :
                applied \in ApplyCalls(pats, calls, now)} :
              calls \in MineCalls(resolved)} :
            resolved \in GetRecentDecisions(decs, RECENT_LIMIT, TRUE)}

\* agents = get_all_agents(); results = []
mine_all_start(found) ==
    /\ miner.pc = "idle"
    /\ miner' = [pc |-> "batch", agents |-> GetAllAgents(found), results |-> <<>>,
                 errors |-> <<>>]
    /\ last' = [op |-> "mine_all_start"]
    /\ UNCHANGED <<decisions, patterns, knowledge, nextKid, clock, conns, bus, kill>>

\* A faulty loop body: without try/except the error ends the batch.
mine_all_step_unguarded ==
    /\ miner.pc = "batch"
    /\ Len(miner.results) < Len(miner.agents)
    /\ LET agent == miner.agents[Len(miner.results) + 1]
       IN \/ /\ \E e \in MineErrors :
                   last' = [op |-> "mine_all", raised |-> TRUE, agents |-> miner.agents,
                            errors |-> Append(miner.errors, e), ret |-> miner.results]
             /\ miner' = Idle
             /\ UNCHANGED patterns
          \/ /\ \E r \in IF agent = OwnAgent
                         THEN MineAgent(decisions, patterns, knowledge, IsoNow(clock))
                         ELSE MineAgent(<<>>, <<>>, <<>>, IsoNow(clock)) :
                   /\ patterns' = IF agent = OwnAgent THEN r.rows ELSE patterns
                   /\ miner' = [miner EXCEPT
                                   !.results = Append(@, [agent |-> agent] @@ r.ret),
                                   !.errors = Append(@, "none")]
             /\ last' = [op |-> "mine_all_step", agent |-> agent]
    /\ UNCHANGED <<decisions, knowledge, nextKid, clock, conns, bus, kill>>

\* for agent in agents: try: results.append(mine_agent(agent))
\* except Exception as e: results.append({... "skipped": True, "reason": str(e)})
mine_all_step ==
    /\ miner.pc = "batch"
    /\ Len(miner.results) < Len(miner.agents)
    /\ LET agent == miner.agents[Len(miner.results) + 1]
       IN \/ /\ \E e \in MineErrors :
                   miner' = [miner EXCEPT
                                !.results = Append(@, [agent |-> agent, skipped |-> TRUE,
                                                       reason |-> e]),
                                !.errors = Append(@, e)]
             /\ UNCHANGED patterns
          \/ /\ \E r \in IF agent = OwnAgent
                         THEN MineAgent(decisions, patterns, knowledge, IsoNow(clock))
                         ELSE MineAgent(<<>>, <<>>, <<>>, IsoNow(clock)) :
                   /\ patterns' = IF agent = OwnAgent THEN r.rows ELSE patterns
                   /\ miner' = [miner EXCEPT
                                   !.results = Append(@, [agent |-> agent] @@ r.ret),
                                   !.errors = Append(@, "none")]
       /\ last' = [op |-> "mine_all_step", agent |-> agent]
    /\ UNCHANGED <<decisions, knowledge, nextKid, clock, conns, bus, kill>>

\* return results
mine_all_return ==
    /\ miner.pc = "batch"
    /\ Len(miner.results) = Len(miner.agents)
    /\ last' = [op |-> "mine_all", raised |-> FALSE, agents |-> miner.agents,
                errors |-> miner.errors, ret |-> miner.results]
    /\ miner' = Idle
    /\ UNCHANGED <<decisions, patterns, knowledge, nextKid, clock, conns, bus, kill>>

(***************************************************************************)
(* SpecBatch: hawk records and resolves decisions, then the batch miner    *)
(* runs over the stores it finds.                                          *)
(***************************************************************************)
BatchScores == {Pct(85), Pct(0 - 50)}

BatchInit ==
    /\ decisions = <<>>
    /\ patterns = <<>>
    /\ knowledge = <<>>
    /\ nextKid = 1
    /\ clock = PlainTime
    /\ last = [op |-> "open"]
    /\ miner = Idle
    /\ conns = NoCalls
    /\ bus = NoEvents
    /\ kill = NoSwitch

BatchRecordDecision ==
    /\ miner.pc = "idle"
    /\ Unmined
    /\ Len(decisions) < BatchDecisions
    /\ record_decision(T_ctx_breakout, T_buy, <<>>, Pct(80), <<T_breakout>>)

BatchRecordOutcome ==
    /\ miner.pc = "idle"
    /\ Unmined
    /\ \E i \in 1..Len(decisions), score \in BatchScores :
          /\ ~decisions[i].resolved
          /\ record_outcome(decisions[i].id, T_Won, score)

\* hawk's store exists; each of the other stores may.
BatchMineAllStart ==
    /\ Unmined
    /\ \E others \in SUBSET {"atlas", "zeta"} : mine_all_start(others \cup {OwnAgent})

BatchNext ==
    \/ BatchRecordDecision
    \/ BatchRecordOutcome
    \/ BatchMineAllStart
    \/ mine_all_step
    \/ mine_all_return

SpecBatch == BatchInit /\ [][BatchNext]_vars

(***************************************************************************)
(* C26: mine_all never raises because of one agent: it returns exactly one *)
(* result per agent store found, in agent-name order; when mining an agent *)
(* raises, that agent's result is {skipped: true, reason: <error text>}    *)
(* and every later agent is still mined.                                   *)
(***************************************************************************)
C26_BatchContinues ==
    last.op = "mine_all" =>
        /\ ~last.raised
        /\ Len(last.ret) = Len(last.agents)
        /\ \A k \in 1..Len(last.agents) :
              /\ last.ret[k].agent = last.agents[k]
              /\ IF last.errors[k] # "none"
                 THEN last.ret[k] = [agent |-> last.agents[k], skipped |-> TRUE,
                                     reason |-> last.errors[k]]
                 ELSE last.ret[k].skipped => last.ret[k].reason = "insufficient_data"

\* Mining atlas failed, and hawk and zeta were mined after it: hawk's three
\* resolved decisions gave patterns, zeta had too little data.
C26_Witness ==
    /\ last.op = "mine_all" /\ ~last.raised
    /\ last.agents = <<"atlas", "hawk", "zeta">>
    /\ last.errors = <<"file is not a database", "none", "none">>
    /\ last.ret[1].skipped /\ last.ret[1].reason = "file is not a database"
    /\ ~last.ret[2].skipped /\ last.ret[2].patterns_extracted > 0
    /\ last.ret[3].skipped /\ last.ret[3].reason = "insufficient_data"
    /\ Len(patterns) > 0

(***************************************************************************)
(* The event bus (events.py): an append-only events file and a cursors     *)
(* file.  An event is kept as its id and the instant of its ts field; ids  *)
(* are taken in publication order (the random suffix of evt_{ts}_{hex4} is *)
(* taken as distinct for every event).  An agent without a cursor has the  *)
(* cursor 0 (cursors.get(agent_name) is None).                             *)
(***************************************************************************)
UNREAD_LIMIT == 100
PRUNE_MAX_AGE_HOURS == 48
ROTATE_MAX_AGE_DAYS == 7

\* Half-hours in an hour and in a day.
TicksPerHour == 2
TicksPerDay == 48

BusPublishMax == 2
BusSpan == 150

EventIds(events) == {events[i].id : i \in 1..Len(events)}

\* The events a prune or rotate keeps: ts >= cutoff.
KeepSince(events, cutoff) == SelectSeq(events, LAMBDA e : e.ts >= cutoff)

\* prune(max_age_hours): the file after the call.
Prune(events, now, max_age_hours) ==
    KeepSince(events, now - max_age_hours * TicksPerHour)

\* rotate(max_age_days): the file after the call (the archived events go to
\* the archive file, which nothing reads).
Rotate(events, now, max_age_days) ==
    KeepSince(events, now - max_age_days * TicksPerDay)

\* get_events with its since_id filter only: the events after the first one
\* whose id is since_id (none when no event has that id), the newest `limit`
\* of them, newest first.
SinceId(events, since_id) ==
    IF since_id = 0 THEN events
    ELSE IF \E i \in 1..Len(events) : events[i].id = since_id
         THEN LET i == CHOOSE k \in 1..Len(events) :
                          /\ events[k].id = since_id
                          /\ \A j \in 1..(k - 1) : events[j].id # since_id
              IN  SubSeq(events, i + 1, Len(events))
         ELSE <<>>

NewestEvents(events, limit) ==
    LET n == Min(limit, Len(events))
    IN  [i \in 1..n |-> events[Len(events) - i + 1]]

GetEvents(events, since_id, limit) == NewestEvents(SinceId(events, since_id), limit)

\* The bus after publish was called `count` times within the half-hour
\* `now`; auto_prune tells whether one of the calls fell on a second
\* divisible by 50 and pruned (all the calls have the same half-hour, so
\* when it pruned makes no difference).
Published(b, now, count, auto_prune) ==
    LET new == [i \in 1..count |-> [id |-> b.nextId + i - 1, ts |-> now]]
        written == b.events \o new
    IN  [b EXCEPT
            !.events = IF auto_prune
                       THEN Prune(written, now, PRUNE_MAX_AGE_HOURS)
                       ELSE written,
            !.nextId = b.nextId + count,
            !.writes = b.writes + 1,
            !.fresh = [a \in BusAgents |-> b.fresh[a] \cup EventIds(new)]]

publish(count, auto_prune) ==
    /\ bus.writes < BusPublishMax
    /\ bus' = Published(bus, clock, count, auto_prune)
    /\ last' = [op |-> "publish", ret |-> bus.nextId + count - 1]
    /\ UNCHANGED <<decisions, patterns, knowledge, nextKid, clock, miner, conns, kill>>

get_unread(agent_name) ==
    LET events == GetEvents(bus.events, bus.cursors[agent_name], UNREAD_LIMIT)
    IN  /\ bus' = [bus EXCEPT
               !.cursors[agent_name] = IF events # <<>> THEN events[1].id ELSE @,
               !.fresh[agent_name] = {},
               !.returned[agent_name] = @ \cup EventIds(events),
               !.called[agent_name] = TRUE]
        /\ last' = [op |-> "get_unread", agent |-> agent_name, ret |-> events]
        /\ UNCHANGED <<decisions, patterns, knowledge, nextKid, clock, miner, conns, kill>>

prune(max_age_hours) ==
    LET kept == Prune(bus.events, clock, max_age_hours)
    IN  /\ bus' = [bus EXCEPT !.events = kept]
        /\ last' = [op |-> "prune", ret |-> Len(bus.events) - Len(kept)]
        /\ UNCHANGED <<decisions, patterns, knowledge, nextKid, clock, miner, conns, kill>>

rotate(max_age_days) ==
    LET kept == Rotate(bus.events, clock, max_age_days)
    IN  /\ bus' = [bus EXCEPT !.events = kept]
        /\ last' = [op |-> "rotate", ret |-> Len(bus.events) - Len(kept)]
        /\ UNCHANGED <<decisions, patterns, knowledge, nextKid, clock, miner, conns, kill>>

\* Time passes: a day, or a little more than the prune age.
BusWaits == {TicksPerDay, PRUNE_MAX_AGE_HOURS * TicksPerHour + 1}

BusWait ==
    /\ \E d \in BusWaits :
          /\ clock + d <= PlainTime + BusSpan
          /\ clock' = clock + d
    /\ last' = [op |-> "tick"]
    /\ UNCHANGED <<decisions, patterns, knowledge, nextKid, miner, conns, bus, kill>>

BusInit ==
    /\ decisions = <<>>
    /\ patterns = <<>>
    /\ knowledge = <<>>
    /\ nextKid = 1
    /\ clock = PlainTime
    /\ last = [op |-> "open"]
    /\ miner = Idle
    /\ conns = NoCalls
    /\ bus = NoEvents
    /\ kill = NoSwitch

BusPublish == \E count \in {1, UNREAD_LIMIT + 1} : \E auto_prune \in BOOLEAN : publish(count, auto_prune)

BusGetUnread == \E a \in BusAgents : get_unread(a)

BusPrune == prune(PRUNE_MAX_AGE_HOURS)

BusRotate == \E days \in {1, ROTATE_MAX_AGE_DAYS} : rotate(days)

BusNext == BusPublish \/ BusGetUnread \/ BusPrune \/ BusRotate \/ BusWait

SpecBus == BusInit /\ [][BusNext]_vars

(***************************************************************************)
(* C28: for any sequence of publish, get_unread and prune/rotate calls,    *)
(* every event published after an agent's previous get_unread call that is *)
(* still in the events file is returned by the agent's next get_unread     *)
(* call, and no event is returned to the same agent by two different       *)
(* get_unread calls -- also when more than 100 events are unread and when  *)
(* the event the cursor points to has been pruned.                         *)
(***************************************************************************)
C28_Step(a) == last'.op = "get_unread" /\ last'.agent = a

C28_EveryUnreadOnce ==
    [][\A a \in BusAgents :
          C28_Step(a) =>
             /\ bus.called[a] =>
                   (bus.fresh[a] \cap EventIds(bus.events))
                       \subseteq EventIds(last'.ret)
             /\ EventIds(last'.ret) \cap bus.returned[a] = {}]_vars

(***************************************************************************)
(* The kill switch (killswitch.py): one file holding the payload of the    *)
(* last activation.  time.time() is the clock counted from 1970: 2026      *)
(* began 20454 days after the epoch.                                       *)
(***************************************************************************)
DEFAULT_EXPIRY_HOURS == 24
EpochDays2026 == 20454

EpochTime(now) == EpochDays2026 * TicksPerDay + now

KillSpan == 98

\* The two outcomes of the publish inside try/except: the event module is
\* there and the event is written, or the import or the write fails.
KillPublished(b, now) ==
    {b} \cup (IF b.writes < BusPublishMax
              THEN {Published(b, now, 1, ap) : ap \in BOOLEAN}
              ELSE {})

activate_killswitch(reason, activated_by, expiry_hours) ==
    LET payload == [file |-> TRUE,
                    reason |-> reason,
                    activated_by |-> activated_by,
                    activated_epoch |-> EpochTime(clock),
                    expires_at |-> EpochTime(clock) + expiry_hours * TicksPerHour,
                    expiry_hours |-> expiry_hours]
    IN  /\ kill' = payload
        /\ bus' \in KillPublished(bus, clock)
        /\ last' = [op |-> "activate_killswitch", ret |-> payload]
        /\ UNCHANGED <<decisions, patterns, knowledge, nextKid, clock, miner, conns>>

clear_killswitch ==
    /\ IF kill.file
       THEN /\ kill' = NoSwitch
            /\ bus' \in KillPublished(bus, clock)
            /\ last' = [op |-> "clear_killswitch",
                        ret |-> [cleared |-> TRUE, was_reason |-> kill.reason]]
       ELSE /\ UNCHANGED <<bus, kill>>
            /\ last' = [op |-> "clear_killswitch", ret |-> [cleared |-> FALSE]]
    /\ UNCHANGED <<decisions, patterns, knowledge, nextKid, clock, miner, conns>>

\* is_killed: what it returns (none: the call returned None; otherwise info
\* is the payload read from the file) and the file it leaves.
IsKilled(k, now) ==
    IF ~k.file THEN [none |-> TRUE, info |-> NoSwitch, kill |-> k]
    ELSE IF k.expires_at > 0 /\ EpochTime(now) > k.expires_at
         THEN [none |-> TRUE, info |-> NoSwitch, kill |-> NoSwitch]
         ELSE [none |-> FALSE, info |-> k, kill |-> k]

is_killed ==
    /\ kill' = IsKilled(kill, clock).kill
    /\ last' = [op |-> "is_killed",
                none |-> IsKilled(kill, clock).none,
                ret |-> IsKilled(kill, clock).info]
    /\ UNCHANGED <<decisions, patterns, knowledge, nextKid, clock, miner, conns, bus>>

\* expiry_hours: the default, none, an hour ago, and longer ago than 1970.
KillExpiries == {DEFAULT_EXPIRY_HOURS, 0, -1, -500000}

\* Time passes: exactly the default expiry, or half an hour more.
KillWaits == {DEFAULT_EXPIRY_HOURS * TicksPerHour, DEFAULT_EXPIRY_HOURS * TicksPerHour + 1}

KillWait ==
    /\ \E d \in KillWaits :
          /\ clock + d <= PlainTime + KillSpan
          /\ clock' = clock + d
    /\ last' = [op |-> "tick"]
    /\ UNCHANGED <<decisions, patterns, knowledge, nextKid, miner, conns, bus, kill>>

KillInit ==
    /\ decisions = <<>>
    /\ patterns = <<>>
    /\ knowledge = <<>>
    /\ nextKid = 1
    /\ clock = PlainTime
    /\ last = [op |-> "open"]
    /\ miner = Idle
    /\ conns = NoCalls
    /\ bus = NoEvents
    /\ kill = NoSwitch

KillActivate == \E h \in KillExpiries : activate_killswitch("Manual kill switch", "unknown", h)

KillNext == KillActivate \/ clear_killswitch \/ is_killed \/ KillWait

SpecKill == KillInit /\ [][KillNext]_vars

(***************************************************************************)
(* C29: after activate_killswitch with any expiry_hours, is_killed returns *)
(* the kill info on every call until clear_killswitch is called or the     *)
(* current time exceeds the expiry; from the first is_killed call after    *)
(* the expiry time on it returns None and the switch file is removed: an   *)
(* activated kill switch never stays in force past its expiry.             *)
(***************************************************************************)
C29_Expired == kill.file /\ EpochTime(clock) > kill.expires_at

C29_NeverPastExpiry ==
    [][last'.op = "is_killed" =>
          IF kill.file /\ ~C29_Expired
          THEN ~last'.none /\ last'.ret = kill /\ kill' = kill
          ELSE last'.none /\ ~kill'.file]_vars

(***************************************************************************)
(* SpecKeywordMining: one mining pass over a store that holds resolved     *)
(* decisions and no pattern.  The won decisions have the context "BTC pump *)
(* the up", the lost ones "Btc dump the up" and those resolved with score  *)
(* 0 "btc flat flat flat".                                                 *)
(***************************************************************************)
T_btc == <<"b", "t", "c">>
T_pump == <<"p", "u", "m", "p">>
T_dump == <<"d", "u", "m", "p">>
T_flat == <<"f", "l", "a", "t">>
T_the == <<"t", "h", "e">>
T_up == <<"u", "p">>
T_ctx_won == <<"B", "T", "C", " ">> \o T_pump \o <<" ">> \o T_the \o <<" ">> \o T_up
T_ctx_lost == <<"B", "t", "c", " ">> \o T_dump \o <<" ">> \o T_the \o <<" ">> \o T_up
T_ctx_flat == T_btc \o <<" ">> \o T_flat \o <<" ">> \o T_flat \o <<" ">> \o T_flat

\* The numbers of decisions resolved with a score other than 0.
KeyTotals == {2, 3, 4, 20}
\* <<wins, losses, zeros>> of the decisions of the store.
KeyMixes == UNION {{<<w, n - w, z>> : w \in 0..n, z \in {0, 1}} : n \in KeyTotals}

\* A store after wins + losses + zeros record_decision calls, each followed
\* by its record_outcome.
KeyStore(wins, losses, zeros) ==
    [i \in 1..(wins + losses + zeros) |->
        Resolve(NewDecision(i, IsoNow(PlainTime),
                            IF i <= wins THEN T_ctx_won
                            ELSE IF i <= wins + losses THEN T_ctx_lost ELSE T_ctx_flat,
                            T_buy, <<>>, Pct(50), <<>>),
                T_Won,
                IF i <= wins THEN Pct(50)
                ELSE IF i <= wins + losses THEN Pct(0 - 50) ELSE 0)]

KeyInit ==
    /\ \E m \in KeyMixes : decisions = KeyStore(m[1], m[2], m[3])
    /\ patterns = <<>>
    /\ knowledge = <<>>
    /\ nextKid = 1
    /\ clock = PlainTime
    /\ last = [op |-> "open"]
    /\ miner = Idle
    /\ conns = NoCalls
    /\ bus = NoEvents
    /\ kill = NoSwitch

KeyMineStart ==
    /\ patterns = <<>>
    /\ mine_start

KeyNext == KeyMineStart \/ mine_strategies \/ mine_prune

SpecKeywordMining == KeyInit /\ [][KeyNext]_vars

\* The resolved decisions whose lower-cased context holds the word, and
\* those of them won and lost.
KeyCarriers(word) ==
    {i \in 1..Len(decisions) :
        decisions[i].resolved /\ Contains(LowerPy(decisions[i].context), word)}
KeyWon(word) == {i \in KeyCarriers(word) : decisions[i].outcome_score > 0}
KeyLost(word) == {i \in KeyCarriers(word) : decisions[i].outcome_score < 0}

\* The active keyword_signal rows about the word.
KeyRows(word) ==
    {i \in 1..Len(patterns) :
        /\ patterns[i].active
        /\ patterns[i].pattern_type = T_keyword_signal
        /\ Contains(patterns[i].description, <<"'">> \o word \o <<"'">>)}

(***************************************************************************)
(* C30: after one pass that runs the strategies on a store with no prior   *)
(* patterns, a token (lower-cased, length >= 3, not a stop-word) whose     *)
(* combined count in the contexts of won and lost decisions is at least 3  *)
(* has a keyword_signal pattern exactly when its win-rate w/(w+l) is       *)
(* >= 0.65 (confidence = win-rate) or <= 0.35 (confidence = 1 - win-rate); *)
(* a token with a combined count below 3 or a win-rate strictly between    *)
(* 0.35 and 0.65 has none, and decisions with score exactly 0 count for    *)
(* neither side.  (Each context of the store holds a word at most once     *)
(* among the won and lost decisions, so the counts are numbers of          *)
(* decisions.)                                                             *)
(***************************************************************************)
C30_Emits(w, l) ==
    w + l >= 3 /\ (w * 100 >= 65 * (w + l) \/ w * 100 <= 35 * (w + l))

C30_KeywordSignal ==
    (last.op = "mine_agent" /\ ~last.ret.skipped) =>
        /\ \A word \in {T_btc, T_pump, T_dump, T_flat} :
              LET w == Cardinality(KeyWon(word))
                  l == Cardinality(KeyLost(word))
              IN IF C30_Emits(w, l)
                 THEN /\ Cardinality(KeyRows(word)) = 1
                      /\ \A i \in KeyRows(word) :
                            /\ patterns[i].evidence_count = w + l
                            /\ patterns[i].confidence * (w + l) =
                                  Q * (IF w * 100 >= 65 * (w + l) THEN w ELSE l)
                 ELSE KeyRows(word) = {}
        /\ KeyRows(T_the) = {}
        /\ KeyRows(T_up) = {}

\* A pass has ended on 13 won, 7 lost and one score-0 decision: "btc" has
\* its pattern with confidence 0.65 and evidence 20, "pump" and "dump" have
\* theirs with confidence 1, and "flat" has none.
C30_Witness ==
    /\ last.op = "mine_agent" /\ ~last.ret.skipped
    /\ Cardinality(KeyWon(T_btc)) = 13 /\ Cardinality(KeyLost(T_btc)) = 7
    /\ Cardinality(KeyCarriers(T_flat)) = 1
    /\ \E i \in KeyRows(T_btc) :
          patterns[i].confidence = Pct(65) /\ patterns[i].evidence_count = 20
    /\ \E i \in KeyRows(T_pump) : patterns[i].confidence = Q
    /\ \E i \in KeyRows(T_dump) : patterns[i].confidence = Q
    /\ KeyRows(T_flat) = {}

(***************************************************************************)
(* SpecCalibration: one mining pass over a store that holds resolved       *)
(* decisions of high (0.7, 0.9), low (0.39, 0.1) and middle (0.4, 0.69)    *)
(* confidence and no pattern.                                              *)
(***************************************************************************)
T_x == <<"x">>
T_High == <<"H", "i", "g", "h", "-">>
T_Low == <<"L", "o", "w", "-">>

\* <<high, wins among them, low, wins among them, middle>>.
CalMixes ==
    {<<h, hw, l, lw, m>> : h \in {0, 2, 3, 4}, hw \in 0..4, l \in {0, 2, 3},
                           lw \in 0..3, m \in {0, 1, 3}}
    \cap {mix \in Seq(0..4) : Len(mix) = 5 /\ mix[2] <= mix[1] /\ mix[4] <= mix[3]}

\* The confidence and the score the i-th decision of a store is recorded
\* and resolved with; the decisions not won alternate between 0 and -0.5.
CalConfidence(mix, i) ==
    IF i <= mix[1] THEN (IF i % 2 = 1 THEN Pct(70) ELSE Pct(90))
    ELSE IF i <= mix[1] + mix[3] THEN (IF i % 2 = 1 THEN Pct(39) ELSE Pct(10))
    ELSE (IF i % 2 = 1 THEN Pct(40) ELSE Pct(69))

CalScore(mix, i) ==
    LET lost == IF i % 2 = 0 THEN 0 ELSE Pct(0 - 50)
    IN IF i <= mix[1] THEN (IF i <= mix[2] THEN Pct(50) ELSE lost)
       ELSE IF i <= mix[1] + mix[3]
            THEN (IF i - mix[1] <= mix[4] THEN Pct(50) ELSE lost)
            ELSE Pct(50)

\* A store after record_decision calls with these confidences, each
\* followed by its record_outcome.
CalStore(mix) ==
    [i \in 1..(mix[1] + mix[3] + mix[5]) |->
        Resolve(NewDecision(i, IsoNow(PlainTime), T_x, T_buy, <<>>,
                            CalConfidence(mix, i), <<>>),
                T_Won, CalScore(mix, i))]

CalInit ==
    /\ \E mix \in CalMixes : decisions = CalStore(mix)
    /\ patterns = <<>>
    /\ knowledge = <<>>
    /\ nextKid = 1
    /\ clock = PlainTime
    /\ last = [op |-> "open"]
    /\ miner = Idle
    /\ conns = NoCalls
    /\ bus = NoEvents
    /\ kill = NoSwitch

CalMineStart ==
    /\ patterns = <<>>
    /\ mine_start

CalNext == CalMineStart \/ mine_strategies \/ mine_prune

SpecCalibration == CalInit /\ [][CalNext]_vars

\* The resolved decisions of the two buckets and those of a set won.
CalHigh == {i \in 1..Len(decisions) :
               decisions[i].resolved /\ decisions[i].confidence * 10 >= 7 * Q}
CalLow == {i \in 1..Len(decisions) :
              decisions[i].resolved /\ decisions[i].confidence * 10 < 4 * Q}
CalWon(bucket) == {i \in bucket : decisions[i].outcome_score > 0}

\* The active calibration rows whose description begins a bucket's text.
CalRows(text) ==
    {i \in 1..Len(patterns) :
        /\ patterns[i].active
        /\ patterns[i].pattern_type = T_calibration
        /\ Contains(patterns[i].description, text)}

C32_Instant(iso) == iso[1] + 2 * iso[2]

C32_Expired(row) == row.expires_at # <<>> /\ C32_Instant(row.expires_at) < clock

C32_PurgesExpired ==
    [][last'.op = "get_knowledge" =>
          /\ \A i \in 1..Len(knowledge) :
                C32_Expired(knowledge[i])
                    <=> \A j \in 1..Len(knowledge') : knowledge'[j] # knowledge[i]
          /\ decisions' = decisions
          /\ patterns' = patterns]_vars

(***************************************************************************)
(* SpecEvidence: add_pattern called with evidence counts of 1, 0 and -1    *)
(* on one connection.                                                      *)
(***************************************************************************)
EvidenceArgs == {1, 0, 0 - 1}
EvidenceDescriptions == {T_X, T_Y}

EvidenceInit ==
    /\ decisions = <<>>
    /\ patterns = <<>>
    /\ knowledge = <<>>
    /\ nextKid = 1
    /\ clock = PlainTime
    /\ last = [op |-> "open"]
    /\ miner = Idle
    /\ conns = NoCalls
    /\ bus = NoEvents
    /\ kill = NoSwitch

EvidenceAddPattern ==
    \E description \in EvidenceDescriptions, e \in EvidenceArgs :
        /\ \/ Len(patterns) < MaxPatterns
           \/ ExistingPattern(patterns, T_trend, description) # {}
        /\ \A i \in 1..Len(patterns) :
              /\ patterns[i].evidence_count <= MaxEvidence
              /\ patterns[i].evidence_count >= 0 - MaxEvidence
        /\ add_pattern(T_trend, description, e, Pct(50), <<>>)

EvidenceNext == EvidenceAddPattern

SpecEvidence == EvidenceInit /\ [][EvidenceNext]_vars

(***************************************************************************)
(* C33: in every reachable state every pattern row has evidence_count      *)
(* >= 1, whatever evidence_count argument add_pattern was given, on the    *)
(* insert path and on the reinforce path.                                  *)
(***************************************************************************)
C33_EvidenceAtLeastOne ==
    \A i \in 1..Len(patterns) : patterns[i].evidence_count >= 1

(***************************************************************************)
(* C35: reinforcement never lowers a pattern's confidence: after every     *)
(* add_pattern call that takes the reinforce path the row's confidence is  *)
(* >= its confidence before the call, for every confidence an active row   *)
(* can hold (anything in [0,1] is accepted at insertion).                  *)
(***************************************************************************)
C35_Reinforced(i) ==
    /\ last'.op = "add_pattern"
    /\ Len(patterns') = Len(patterns)
    /\ patterns[i].id = last'.ret

C35_NeverLowers ==
    [][\A i \in 1..Len(patterns) :
          C35_Reinforced(i) => patterns'[i].confidence >= patterns[i].confidence]_vars

(***************************************************************************)
(* C34: when two connections concurrently call add_pattern to reinforce    *)
(* the same existing active pattern, both reinforcements take effect under *)
(* every interleaving, so that the final evidence_count is the initial     *)
(* count plus both supplied counts and the final confidence is             *)
(* min(0.99, initial + 0.10): every UPDATE of a reinforcing call adds its  *)
(* evidence and its step of 0.05 to what the row holds when it is written. *)
(***************************************************************************)
C34_Reinforces(c) ==
    /\ conns[c].pc = "add_pattern"
    /\ conns[c].existing # <<>>
    /\ conns'[c] = Idle

C34_NoLostReinforcement ==
    [][\A c \in Conns :
          C34_Reinforces(c) =>
             \A i \in 1..Len(patterns) :
                patterns[i].id = conns[c].existing[1].id =>
                   /\ patterns'[i].evidence_count =
                         patterns[i].evidence_count + conns[c].evidence_count
                   /\ patterns'[i].confidence =
                         Min(Pct(REINFORCE_CAP),
                             patterns[i].confidence + Pct(REINFORCE_STEP))]_vars

(***************************************************************************)
(* C36: a deactivated pattern is never reactivated or modified by any      *)
(* later operation: the inactive row keeps active = false, its             *)
(* evidence_count and its confidence for ever, and add_pattern with the    *)
(* (pattern_type, description) of an inactive row, when no active row has  *)
(* the pair, inserts a fresh active row carrying exactly the supplied      *)
(* evidence_count and the clamped confidence.                              *)
(***************************************************************************)
C36_Inactive(pattern_type, description) ==
    {i \in 1..Len(patterns) : /\ ~patterns[i].active
                              /\ patterns[i].pattern_type = pattern_type
                              /\ patterns[i].description = description}

C36_Active(pattern_type, description) ==
    {i \in 1..Len(patterns) : /\ patterns[i].active
                              /\ patterns[i].pattern_type = pattern_type
                              /\ patterns[i].description = description}

C36_AddsAgain ==
    /\ last'.op = "add_pattern"
    /\ C36_Inactive(last'.pattern_type, last'.description) # {}
    /\ C36_Active(last'.pattern_type, last'.description) = {}

PassDecisions == 4
PassEvidence == 8

T_ctx_twice == T_btc \o <<" ">> \o T_btc \o <<" ">> \o T_breakout

\* <<wins, losses, zeros>> of the decisions the store is opened with.
PassMixes == {<<3, 0, 0>>, <<2, 1, 0>>, <<0, 0, 3>>, <<2, 0, 1>>}
PassScores == {Pct(50), Pct(0 - 50), 0}

\* A store after wins + losses + zeros record_decision calls, each followed
\* by its record_outcome.
PassStore(wins, losses, zeros) ==
    [i \in 1..(wins + losses + zeros) |->
        Resolve(NewDecision(i, IsoNow(PlainTime), T_ctx_twice, T_buy, <<>>,
                            Pct(50), <<T_breakout>>),
                T_Won,
                IF i <= wins THEN Pct(50)
                ELSE IF i <= wins + losses THEN Pct(0 - 50) ELSE 0)]

PassInit ==
    /\ \E m \in PassMixes : decisions = PassStore(m[1], m[2], m[3])
    /\ patterns = <<>>
    /\ knowledge = <<>>
    /\ nextKid = 1
    /\ clock = PlainTime
    /\ last = [op |-> "open"]
    /\ miner = Idle
    /\ conns = NoCalls
    /\ bus = NoEvents
    /\ kill = NoSwitch

PassRecordDecision ==
    /\ miner.pc = "idle"
    /\ Len(decisions) < PassDecisions
    /\ \A i \in 1..Len(decisions) : decisions[i].resolved
    /\ record_decision(T_ctx_twice, T_buy, <<>>, Pct(50), <<T_breakout>>)

PassRecordOutcome ==
    /\ miner.pc = "idle"
    /\ \E i \in 1..Len(decisions), score \in PassScores :
          /\ ~decisions[i].resolved
          /\ record_outcome(decisions[i].id, T_Won, score)

PassMineStart ==
    /\ \A i \in 1..Len(patterns) : patterns[i].evidence_count <= PassEvidence
    /\ mine_start

PassNext ==
    \/ PassRecordDecision
    \/ PassRecordOutcome
    \/ PassMineStart
    \/ mine_strategies
    \/ mine_prune

SpecPasses == PassInit /\ [][PassNext]_vars

\* The active rows of a pattern type.
PassRows(pattern_type) ==
    {i \in 1..Len(patterns) :
        patterns[i].active /\ patterns[i].pattern_type = pattern_type}

(***************************************************************************)
(* C37: after any sequence of mining passes interleaved with newly         *)
(* recorded and resolved decisions the store holds at most one active      *)
(* tag_performance pattern per tag (here: for the one tag "breakout").     *)
(***************************************************************************)
C37_OneRowPerTag ==
    miner.pc = "idle" => Cardinality(PassRows(T_tag_performance)) <= 1

(***************************************************************************)
(* C38: a tag whose resolved decisions all have outcome_score exactly 0,   *)
(* however many there are, has no tag_performance pattern after a mining   *)
(* pass.                                                                   *)
(***************************************************************************)
C38_AllScoresZero ==
    \A i \in 1..Len(decisions) :
        decisions[i].resolved => decisions[i].outcome_score = 0

C38_NoPatternForZeros ==
    (last.op = "mine_agent" /\ ~last.ret.skipped /\ C38_AllScoresZero)
        => PassRows(T_tag_performance) = {}

(***************************************************************************)
(* C39: the evidence_count a mining pass gives a keyword_signal pattern    *)
(* never exceeds the number of resolved decisions analysed in the pass.    *)
(***************************************************************************)
C39_EvidenceWithinDecisions ==
    last.op = "mine_strategies" =>
        \A k \in 1..Len(last.calls) :
            last.calls[k].pattern_type = T_keyword_signal =>
                last.calls[k].evidence_count <= miner.stats.resolved_decisions

(***************************************************************************)
(* C40: the total_active_patterns a mine_agent run that was not skipped    *)
(* returns is the number of active pattern rows in the store when the run  *)
(* finishes, on a first run that inserts patterns and on later runs that   *)
(* reinforce them.                                                         *)
(***************************************************************************)
C40_TotalIsActiveRows ==
    (last.op = "mine_agent" /\ ~last.ret.skipped) =>
        last.ret.total_active_patterns =
            Cardinality({i \in 1..Len(patterns) : patterns[i].active})

====
